---- MODULE Spec2Model ----
(***************************************************************************)
(* Model of the Google Docs request compiler of md-converter:              *)
(*   app/converters/google_docs_converter.py  (GoogleDocsConverter)        *)
(*   app/utils/security.py                    (validate_image_url)         *)
(*                                                                         *)
(* A text is a sequence of atoms; an atom is a string.  Markdown input is  *)
(* a sequence of one-character atoms, so Len is the Python len().  URLs    *)
(* and placeholders are sequences of longer atoms; StrLen adds the atom    *)
(* lengths up.                                                             *)
(*                                                                         *)
(* Spec is one conversion request, from documents().create to the last     *)
(* batchUpdate; SpecPair is two requests taking turns at their waits for   *)
(* the network.                                                            *)
(***************************************************************************)
EXTENDS Integers, Sequences, FiniteSets, TLC

\* ------------------------------------------------------------------ bounds
MaxTextLen == 4
MaxNodes == 3
MaxKeys == 2

\* --------------------------------------------------------- program constants
StartIndex == 1
MaxHeadingLevel == 6
MaxImageBytes == 10485760

NoneVal == -1

\* ------------------------------------------------------------ text helpers
RECURSIVE StrLen(_)
StrLen(t) == IF t = <<>> THEN 0 ELSE Len(Head(t)) + StrLen(Tail(t))

IsSpace(c) == c \in {" ", "\t", "\n"}

\* str.strip() == '' : every character is whitespace
IsBlank(t) == \A i \in 1..Len(t) : IsSpace(t[i])

\* SplitFrom leaving out the empty piece after a final newline
RECURSIVE SplitFrom_NoTrailing(_, _, _)
SplitFrom_NoTrailing(t, i, acc) ==
  IF i > Len(t) THEN (IF acc = <<>> /\ t # <<>> THEN <<>> ELSE <<acc>>)
  ELSE IF t[i] = "\n" THEN <<acc>> \o SplitFrom_NoTrailing(t, i + 1, <<>>)
  ELSE SplitFrom_NoTrailing(t, i + 1, Append(acc, t[i]))

\* text.split('\n'): the pieces between newlines, always at least one piece
RECURSIVE SplitFrom(_, _, _)
SplitFrom(t, i, acc) ==
  IF i > Len(t) THEN <<acc>>
  ELSE IF t[i] = "\n" THEN <<acc>> \o SplitFrom(t, i + 1, <<>>)
  ELSE SplitFrom(t, i + 1, Append(acc, t[i]))

SplitLines(t) == SplitFrom(t, 1, <<>>)

Max(S) == CHOOSE x \in S : \A y \in S : y <= x
Min(S) == CHOOSE x \in S : \A y \in S : x <= y

\* ------------------------------------------------------ heading pattern
\* re.match(r'^(#{1,6})\s+(.+)$', line): k marks, m whitespace characters,
\* then at least one character that is not a newline.  Greedy: the longest
\* k, then the longest m, that leave a match.
\* HeadingCands accepting up to seven marks
HeadingCands_SevenMarks(line) ==
  { km \in (1..(MaxHeadingLevel + 1)) \X (1..Len(line)) :
      /\ km[1] + km[2] < Len(line)
      /\ \A i \in 1..km[1] : line[i] = "#"
      /\ \A i \in (km[1] + 1)..(km[1] + km[2]) : IsSpace(line[i])
      /\ \A i \in (km[1] + km[2] + 1)..Len(line) : line[i] # "\n" }

HeadingCands(line) ==
  { km \in (1..MaxHeadingLevel) \X (1..Len(line)) :
      /\ km[1] + km[2] < Len(line)
      /\ \A i \in 1..km[1] : line[i] = "#"
      /\ \A i \in (km[1] + 1)..(km[1] + km[2]) : IsSpace(line[i])
      /\ \A i \in (km[1] + km[2] + 1)..Len(line) : line[i] # "\n" }

HeadingMatch(line) ==
  LET c == HeadingCands(line) IN
  IF c = {} THEN [matched |-> FALSE, level |-> 0, text |-> <<>>]
  ELSE LET k == Max({km[1] : km \in c})
           m == Max({km[2] : km \in {x \in c : x[1] = k}})
       IN [matched |-> TRUE, level |-> k,
           text |-> SubSeq(line, k + m + 1, Len(line))]

\* ------------------------------------------------------ inline patterns
\* Offsets are 0-based and half open, as match.start() / match.end().
\* The functions below take 1-based positions into the line.

\* \*\*(.+?)\*\*|__(.+?)__ tried at position i: end of the match (1-based,
\* exclusive) or 0.  The lazy group takes the shortest content of at least
\* one non-newline character that is followed by the closing pair.
\* BoldMatchAt with a greedy group: the content runs to the last closing pair
BoldMatchAt_Greedy(line, i) ==
  IF i + 1 > Len(line) \/ line[i] \notin {"*", "_"} \/ line[i + 1] # line[i]
  THEN 0
  ELSE LET d == line[i]
           closers == { j \in (i + 3)..(Len(line) - 1) :
                          /\ line[j] = d /\ line[j + 1] = d
                          /\ \A x \in (i + 2)..(j - 1) : line[x] # "\n" }
       IN IF closers = {} THEN 0 ELSE Max(closers) + 2

BoldMatchAt(line, i) ==
  IF i + 1 > Len(line) \/ line[i] \notin {"*", "_"} \/ line[i + 1] # line[i]
  THEN 0
  ELSE LET d == line[i]
           closers == { j \in (i + 3)..(Len(line) - 1) :
                          /\ line[j] = d /\ line[j + 1] = d
                          /\ \A x \in (i + 2)..(j - 1) : line[x] # "\n" }
       IN IF closers = {} THEN 0 ELSE Min(closers) + 2

\* (?<!\*)\*([^*]+?)\*(?!\*)|(?<!_)_([^_]+?)_(?!_) tried at position i.
ItalicMatchAt(line, i) ==
  IF i > Len(line) \/ line[i] \notin {"*", "_"} THEN 0
  ELSE LET d == line[i]
           later == { j \in (i + 1)..Len(line) : line[j] = d }
       IN IF i > 1 /\ line[i - 1] = d THEN 0
          ELSE IF later = {} THEN 0
          ELSE LET j == Min(later) IN
               IF j < i + 2 THEN 0
               ELSE IF j < Len(line) /\ line[j + 1] = d THEN 0
               ELSE j + 1

\* re.finditer: leftmost match from position i on, then resume at its end.
RECURSIVE BoldFrom(_, _)
BoldFrom(line, i) ==
  IF i > Len(line) THEN <<>>
  ELSE LET e == BoldMatchAt(line, i) IN
       IF e = 0 THEN BoldFrom(line, i + 1)
       ELSE <<[start |-> i - 1, end |-> e - 1]>> \o BoldFrom(line, e)

\* ItalicFrom resuming one character after the start of a match instead of
\* at its end
RECURSIVE ItalicFrom_Overlapping(_, _)
ItalicFrom_Overlapping(line, i) ==
  IF i > Len(line) THEN <<>>
  ELSE LET e == ItalicMatchAt(line, i) IN
       IF e = 0 THEN ItalicFrom_Overlapping(line, i + 1)
       ELSE <<[start |-> i - 1, end |-> e - 1]>> \o ItalicFrom_Overlapping(line, i + 1)

RECURSIVE ItalicFrom(_, _)
ItalicFrom(line, i) ==
  IF i > Len(line) THEN <<>>
  ELSE LET e == ItalicMatchAt(line, i) IN
       IF e = 0 THEN ItalicFrom(line, i + 1)
       ELSE <<[start |-> i - 1, end |-> e - 1]>> \o ItalicFrom(line, e)

\* BoldSpans listing the matches from the last to the first
BoldSpans_RightToLeft(line) ==
  LET s == BoldFrom(line, 1) IN [k \in 1..Len(s) |-> s[Len(s) + 1 - k]]

BoldSpans(line) == BoldFrom(line, 1)
ItalicSpans(line) == ItalicFrom(line, 1)

\* ------------------------------------------------------------ commands
NoText == <<>>

InsertText(i, t) ==
  [type |-> "insertText", index |-> i, text |-> t,
   startIndex |-> 0, endIndex |-> 0, style |-> "", uri |-> NoText]

UpdateParagraphStyle(s, e, st) ==
  [type |-> "updateParagraphStyle", index |-> 0, text |-> NoText,
   startIndex |-> s, endIndex |-> e, style |-> st, uri |-> NoText]

UpdateTextStyle(s, e, st) ==
  [type |-> "updateTextStyle", index |-> 0, text |-> NoText,
   startIndex |-> s, endIndex |-> e, style |-> st, uri |-> NoText]

InsertInlineImage(i, u) ==
  [type |-> "insertInlineImage", index |-> i, text |-> NoText,
   startIndex |-> 0, endIndex |-> 0, style |-> "", uri |-> u]

HeadingNames ==
  <<"HEADING_1", "HEADING_2", "HEADING_3", "HEADING_4", "HEADING_5", "HEADING_6">>

\* f'HEADING_{level}' if level <= 6 else 'HEADING_6'
HeadingType(level) ==
  IF level <= MaxHeadingLevel THEN HeadingNames[level] ELSE "HEADING_6"

\* ------------------------------------------- line dialect: one source line
\* BlankRequests emitting nothing for a blank line
BlankRequests_None(ci) == <<>>

BlankRequests(ci) == <<InsertText(ci, <<"\n">>)>>

\* HeadingRequests with the range taken from the cursor after the advance
HeadingRequests_AfterAdvance(ci, txt, level) ==
  LET text_content == txt \o <<"\n">>
      moved == ci + StrLen(text_content)
  IN << InsertText(ci, text_content),
        UpdateParagraphStyle(moved, moved + StrLen(text_content) - 1, HeadingType(level)) >>

\* insertText of text + '\n', then updateParagraphStyle over the text only
HeadingRequests(ci, txt, level) ==
  LET text_content == txt \o <<"\n">> IN
  << InsertText(ci, text_content),
     UpdateParagraphStyle(ci, ci + StrLen(text_content) - 1, HeadingType(level)) >>

\* SpanRequests with the match offsets counted from one before the cursor
SpanRequests_FromZero(ci, spans, st) ==
  [k \in 1..Len(spans) |->
     UpdateTextStyle(ci + spans[k].start - 1, ci + spans[k].end - 1, st)]

\* one updateTextStyle per match, offsets taken from the cursor before the
\* insert advanced it
SpanRequests(ci, spans, st) ==
  [k \in 1..Len(spans) |->
     UpdateTextStyle(ci + spans[k].start, ci + spans[k].end, st)]

\* ParagraphRequests with the style commands ahead of the insert
ParagraphRequests_StylesFirst(ci, line) ==
  SpanRequests(ci, BoldSpans(line), "bold")
    \o SpanRequests(ci, ItalicSpans(line), "italic")
    \o <<InsertText(ci, line \o <<"\n">>)>>

ParagraphRequests(ci, line) ==
  <<InsertText(ci, line \o <<"\n">>)>>
    \o SpanRequests(ci, BoldSpans(line), "bold")
    \o SpanRequests(ci, ItalicSpans(line), "italic")

\* LineRequests with the scans of a paragraph resuming at the position the
\* cursor has reached instead of at the start of the line
LineRequests_ScanFromCursor(ci, line) ==
  IF IsBlank(line) THEN BlankRequests(ci)
  ELSE LET h == HeadingMatch(line) IN
       IF h.matched THEN HeadingRequests(ci, h.text, h.level)
       ELSE <<InsertText(ci, line \o <<"\n">>)>>
              \o SpanRequests(ci, BoldFrom(line, ci), "bold")
              \o SpanRequests(ci, ItalicFrom(line, ci), "italic")

\* the body of the for loop of _parse_markdown_to_requests for one line
LineRequests(ci, line) ==
  IF IsBlank(line) THEN BlankRequests(ci)
  ELSE LET h == HeadingMatch(line) IN
       IF h.matched THEN HeadingRequests(ci, h.text, h.level)
       ELSE ParagraphRequests(ci, line)

\* LineAdvance with the newline of a paragraph line left out of the advance
LineAdvance_NoNewline(line) ==
  IF IsBlank(line) THEN 1
  ELSE LET h == HeadingMatch(line) IN
       IF h.matched THEN StrLen(h.text \o <<"\n">>)
       ELSE StrLen(line)

\* the amount current_index advances by for one line
LineAdvance(line) ==
  IF IsBlank(line) THEN 1
  ELSE LET h == HeadingMatch(line) IN
       IF h.matched THEN StrLen(h.text \o <<"\n">>)
       ELSE StrLen(line \o <<"\n">>)

\* the branch of the loop body a line takes
LineKind(line) ==
  IF IsBlank(line) THEN "blank"
  ELSE IF HeadingMatch(line).matched THEN "heading" ELSE "paragraph"

\* the text a line contributes, before the newline the loop adds
BlockText(line) ==
  IF IsBlank(line) THEN <<>>
  ELSE IF HeadingMatch(line).matched THEN HeadingMatch(line).text ELSE line

\* ------------------------------------------------- HTML tree (BeautifulSoup)
\* Node 0 is the root the walk starts from (body, or the soup); the other
\* nodes are numbered in document order.  A tree is a sequence of node
\* records [kind, parent, text, src].  The parser links every node into the
\* tree (parent, siblings) and into the document-order chain (next_element,
\* previous_element); extract() rewires those links.
Containers == {"h1", "h6", "p", "div"}

HeadingLevelOf(kind) == IF kind = "h1" THEN 1 ELSE 6

KindOf(nodes, n) == IF n = 0 THEN "body" ELSE nodes[n].kind

InitialDom(nodes) ==
  LET N == Len(nodes)
      par(n) == IF n = 0 THEN NoneVal ELSE nodes[n].parent
      later(n) == { m \in (n + 1)..N : par(m) = par(n) }
      earlier(n) == { m \in 1..(n - 1) : par(m) = par(n) }
  IN [ parent |-> [n \in 0..N |-> par(n)],
       next_element |-> [n \in 0..N |-> IF n < N THEN n + 1 ELSE NoneVal],
       previous_element |-> [n \in 0..N |-> IF n > 0 THEN n - 1 ELSE NoneVal],
       next_sibling |->
         [n \in 0..N |-> IF n = 0 \/ later(n) = {} THEN NoneVal ELSE Min(later(n))],
       previous_sibling |->
         [n \in 0..N |-> IF n = 0 \/ earlier(n) = {} THEN NoneVal ELSE Max(earlier(n))] ]

\* element.contents, as the set of children (document order is id order)
Contents(d, n) == { m \in DOMAIN d.parent : m # 0 /\ d.parent[m] = n }

\* PageElement._last_descendant()
RECURSIVE DeepestLast(_, _)
DeepestLast(d, n) ==
  IF Contents(d, n) = {} THEN n ELSE DeepestLast(d, Max(Contents(d, n)))

LastDescendant(d, n) ==
  IF d.next_sibling[n] # NoneVal
  THEN d.previous_element[d.next_sibling[n]]
  ELSE DeepestLast(d, n)

\* PageElement.extract(): rip the element and its subtree out of the tree
Extract(d, n) ==
  LET last_child == LastDescendant(d, n)
      next_element == d.next_element[last_child]
      pe == d.previous_element[n]
      ps == d.previous_sibling[n]
      ns == d.next_sibling[n]
      ne1 == IF pe # NoneVal /\ pe # next_element
             THEN [d.next_element EXCEPT ![pe] = next_element]
             ELSE d.next_element
      pe1 == IF next_element # NoneVal /\ next_element # pe
             THEN [d.previous_element EXCEPT ![next_element] = pe]
             ELSE d.previous_element
      nsib == IF ps # NoneVal /\ ps # ns
              THEN [d.next_sibling EXCEPT ![ps] = ns]
              ELSE d.next_sibling
      psib == IF ns # NoneVal /\ ns # ps
              THEN [d.previous_sibling EXCEPT ![ns] = ps]
              ELSE d.previous_sibling
  IN [ parent |-> [d.parent EXCEPT ![n] = NoneVal],
       next_element |-> [ne1 EXCEPT ![last_child] = NoneVal],
       previous_element |-> [pe1 EXCEPT ![n] = NoneVal],
       next_sibling |-> [nsib EXCEPT ![n] = NoneVal],
       previous_sibling |-> [psib EXCEPT ![n] = NoneVal] ]

\* Tag.descendants is a generator over the next_element chain, from
\* contents[0] to the element after the last descendant.  Releases of the
\* library differ in when the generator reads the link to the next element:
\* before handing the current element to the loop body (successor_first) or
\* after the body has run.

\* the generator's next position, given the tree before (d) and after (d2)
\* the loop body ran on cur
Successor(d, d2, cur, successor_first) ==
  IF successor_first THEN d.next_element[cur] ELSE d2.next_element[cur]

\* does the generator stop at position cur
Exhausted(cur, stop, successor_first) ==
  cur = stop \/ (successor_first /\ cur = NoneVal)

\* the i-th element of element.contents
NthChild(d, n, i) ==
  CHOOSE x \in Contents(d, n) : Cardinality({ y \in Contents(d, n) : y < x }) = i - 1

\* child == element: two strings are equal when their text is, two tags when
\* their names, attributes and contents are; a string never equals a tag
RECURSIVE NodeEq(_, _, _, _)
NodeEq(nodes, d, a, b) ==
  IF a = b THEN TRUE
  ELSE IF KindOf(nodes, a) = "text" \/ KindOf(nodes, b) = "text"
       THEN KindOf(nodes, a) = KindOf(nodes, b) /\ nodes[a].text = nodes[b].text
  ELSE /\ KindOf(nodes, a) = KindOf(nodes, b)
       /\ nodes[a].src = nodes[b].src
       /\ Cardinality(Contents(d, a)) = Cardinality(Contents(d, b))
       /\ \A i \in 1..Cardinality(Contents(d, a)) :
             NodeEq(nodes, d, NthChild(d, a, i), NthChild(d, b, i))

\* for child in element.descendants: if child != element: child.extract()
\* A generator that hands out None makes child.extract() raise.
RECURSIVE ConsumeLoop(_, _, _, _, _, _)
ConsumeLoop(nodes, d, element, cur, stop, successor_first) ==
  IF Exhausted(cur, stop, successor_first) THEN [dom |-> d, raised |-> FALSE]
  ELSE IF cur = NoneVal THEN [dom |-> d, raised |-> TRUE]
  ELSE LET d2 == IF NodeEq(nodes, d, cur, element) THEN d ELSE Extract(d, cur) IN
       ConsumeLoop(nodes, d2, element, Successor(d, d2, cur, successor_first),
                   stop, successor_first)

ConsumeChildren(nodes, d, element, successor_first) ==
  IF Contents(d, element) = {} THEN [dom |-> d, raised |-> FALSE]
  ELSE ConsumeLoop(nodes, d, element, Min(Contents(d, element)),
                   d.next_element[LastDescendant(d, element)], successor_first)

\* Tag.get_text(): the strings among the descendants, joined
RECURSIVE TextFrom(_, _, _, _)
TextFrom(nodes, d, cur, stop) ==
  IF cur = stop \/ cur = NoneVal THEN <<>>
  ELSE (IF KindOf(nodes, cur) = "text" THEN nodes[cur].text ELSE <<>>)
         \o TextFrom(nodes, d, d.next_element[cur], stop)

GetText(nodes, d, element) ==
  IF Contents(d, element) = {} THEN <<>>
  ELSE TextFrom(nodes, d, Min(Contents(d, element)),
                d.next_element[LastDescendant(d, element)])

\* ------------------------------------------------------ validate_image_url
\* A URL is a sequence of atoms: scheme, separator, host atoms, path atoms.
SchemeSeps == {"://", ":"}

PathAtoms == {"/x.png", "/latest/meta-data/", "/etc/passwd"}

\* str.lower() on the atoms the inputs use
Lower(a) ==
  CASE a = "HTTP" -> "http"
    [] a = "LOCALHOST" -> "localhost"
    [] a = "MetaData" -> "metadata"
    [] a = "DATA" -> "data"
    [] OTHER -> a

LowerAll(t) == [i \in 1..Len(t) |-> Lower(t[i])]

\* url.startswith('data:image/'), case sensitive
StartsWithDataImage(url) ==
  Len(url) >= 3 /\ url[1] = "data" /\ url[2] = ":" /\ url[3] = "image/"

\* urlparse(url): scheme lower-cased, hostname lower-cased or absent;
\* an unbalanced bracket in the host makes urlparse raise ValueError
UrlParse(url) ==
  LET hasScheme == Len(url) >= 2 /\ url[2] \in SchemeSeps
      hasNetloc == hasScheme /\ url[2] = "://"
      hostEnd == IF hasNetloc
                 THEN Min({ i \in 3..(Len(url) + 1) :
                              i = Len(url) + 1 \/ url[i] \in PathAtoms }) - 1
                 ELSE 2
      host == IF hasNetloc THEN SubSeq(url, 3, hostEnd) ELSE <<>>
  IN [ raises |-> \E i \in 1..Len(host) : host[i] = "[bad",
       scheme |-> IF hasScheme THEN Lower(url[1]) ELSE "",
       hostname |-> LowerAll(host) ]

\* ipaddress.ip_address(hostname): the literals the inputs use
IpLiterals == {"169.254.169.254", "10.0.0.5", "127.0.0.1", "240.0.0.1", "93.184.216.34"}

IsIpLiteral(hostname) == Len(hostname) = 1 /\ hostname[1] \in IpLiterals

IpClass(a) ==
  CASE a = "169.254.169.254" -> "link_local"
    [] a = "10.0.0.5" -> "private"
    [] a = "127.0.0.1" -> "loopback"
    [] a = "240.0.0.1" -> "reserved"
    [] OTHER -> "public"

\* the ipaddress properties: the private networks of the module include the
\* loopback, link-local and 240.0.0.0/4 blocks
IsPrivate(c) == c \in {"private", "loopback", "link_local", "reserved"}
IsLoopback(c) == c = "loopback"
IsLinkLocal(c) == c = "link_local"
IsReserved(c) == c = "reserved"

BlockedHostnames ==
  << <<"metadata", ".", "google", ".", "internal">>, <<"metadata">>, <<"instance-data">> >>

LocalhostNames == { <<"localhost">>, <<"localhost", ".", "localdomain">> }

\* blocked in hostname: the blocked name occurs as a substring
Contains(hostname, blocked) ==
  \E i \in 1..Len(hostname) :
     /\ i + Len(blocked) - 1 <= Len(hostname)
     /\ SubSeq(hostname, i, i + Len(blocked) - 1) = blocked

HostnameBlocked(hostname) ==
  \E k \in 1..Len(BlockedHostnames) : Contains(hostname, BlockedHostnames[k])

IpBlocked(c) == IsPrivate(c) \/ IsLoopback(c) \/ IsLinkLocal(c) \/ IsReserved(c)

\* validate_image_url comparing the hostname with the blocked names for
\* equality instead of searching it for them
validate_image_url_ExactMatch(url) ==
  IF url = <<>> THEN FALSE
  ELSE IF StartsWithDataImage(url) THEN TRUE
  ELSE LET parsed == UrlParse(url) IN
       IF parsed.raises THEN FALSE
       ELSE IF parsed.scheme \notin {"http", "https"} THEN FALSE
       ELSE IF parsed.hostname = <<>> THEN FALSE
       ELSE IF parsed.hostname \in LocalhostNames THEN FALSE
       ELSE IF IsIpLiteral(parsed.hostname) /\ IpBlocked(IpClass(parsed.hostname[1]))
            THEN FALSE
       ELSE IF \E k \in 1..Len(BlockedHostnames) : parsed.hostname = BlockedHostnames[k]
            THEN FALSE
       ELSE TRUE

validate_image_url(url) ==
  IF url = <<>> THEN FALSE
  ELSE IF StartsWithDataImage(url) THEN TRUE
  ELSE LET parsed == UrlParse(url) IN
       IF parsed.raises THEN FALSE
       ELSE IF parsed.scheme \notin {"http", "https"} THEN FALSE
       ELSE IF parsed.hostname = <<>> THEN FALSE
       ELSE IF parsed.hostname \in LocalhostNames THEN FALSE
       ELSE IF IsIpLiteral(parsed.hostname) /\ IpBlocked(IpClass(parsed.hostname[1]))
            THEN FALSE
       ELSE IF HostnameBlocked(parsed.hostname) THEN FALSE
       ELSE TRUE

\* ------------------------------------------------ the image collaborators
AddrClasses == {"public", "private", "loopback", "link_local", "reserved"}

\* where a connection to the host can end up: an IP literal is itself, the
\* resolver reads "127.1" as 127.0.0.1, any other name is whatever DNS says
ResolvesTo(hostname) ==
  IF IsIpLiteral(hostname) THEN {IpClass(hostname[1])}
  ELSE IF hostname = <<"127.1">> THEN {"loopback"}
  ELSE AddrClasses

\* requests has connection adapters for http:// and https:// only; any
\* other URL makes requests.get raise InvalidSchema before connecting
HasAdapter(url) == Len(url) >= 2 /\ url[2] = "://" /\ Lower(url[1]) \in {"http", "https"}

ContentTypes == { <<>>, <<"image/", "png">>, <<"text/", "html">> }

\* len(response.content): the limit and one byte more
BodySizes == {MaxImageBytes, MaxImageBytes + 1}

\* response.headers.get('content-type', 'image/png')
ContentTypeOf(header) == IF header = <<>> THEN <<"image/", "png">> ELSE header

\* content_type.startswith('image/')
IsImageType(content_type) == Len(content_type) >= 1 /\ content_type[1] = "image/"

\* TooLarge with the limit itself counted as too large
TooLarge_AtLimit(size) == size >= MaxImageBytes

\* len(response.content) > 10 * 1024 * 1024
TooLarge(size) == size > MaxImageBytes

FileIds == {"F1"}

DriveUri(file_id) == <<"https://drive.google.com/uc?id=", file_id>>

\* f"[Image: {img_url}]\n"
Placeholder(img_url) == <<"[Image: ">> \o img_url \o <<"]\n">>

\* ------------------------------------------------- front matter (metadata)
\* A metadata mapping is the dict frontmatter.loads returned: a sequence of
\* [key, value] pairs in insertion order, the keys distinct.  A key is
\* [str, chars]: a str key with its characters, or (str = FALSE) a key of
\* another type, as YAML gives for "1: x".  A value is a record
\* [type, chars, items, n, y, m, d]; the items of a list are values.
LowerLetters ==
  <<"a", "b", "c", "d", "e", "f", "g", "h", "i", "j", "k", "l", "m",
    "n", "o", "p", "q", "r", "s", "t", "u", "v", "w", "x", "y", "z">>

UpperLetters ==
  <<"A", "B", "C", "D", "E", "F", "G", "H", "I", "J", "K", "L", "M",
    "N", "O", "P", "Q", "R", "S", "T", "U", "V", "W", "X", "Y", "Z">>

LetterIndex(c) ==
  LET s == { i \in 1..26 : LowerLetters[i] = c \/ UpperLetters[i] = c } IN
  IF s = {} THEN 0 ELSE CHOOSE i \in s : TRUE

IsLetter(c) == LetterIndex(c) # 0
UpperChar(c) == IF IsLetter(c) THEN UpperLetters[LetterIndex(c)] ELSE c
LowerChar(c) == IF IsLetter(c) THEN LowerLetters[LetterIndex(c)] ELSE c

\* key.replace('_', ' ')
ReplaceUnderscores(key) ==
  [i \in 1..Len(key) |-> IF key[i] = "_" THEN " " ELSE key[i]]

\* str.title(): a letter after a letter is lower-cased, any other letter
\* is upper-cased
Title(s) ==
  [i \in 1..Len(s) |->
     IF i > 1 /\ IsLetter(s[i - 1]) THEN LowerChar(s[i]) ELSE UpperChar(s[i])]

KeyDisplay(key) == Title(ReplaceUnderscores(key))

Digits == <<"0", "1", "2", "3", "4", "5", "6", "7", "8", "9">>

\* str(n) of a non-negative int
RECURSIVE DecStr(_)
DecStr(n) ==
  IF n < 10 THEN <<Digits[n + 1]>>
  ELSE DecStr(n \div 10) \o <<Digits[(n % 10) + 1]>>

\* a number zero-padded to w digits
ZeroPad(n, w) ==
  [i \in 1..Max({w, Len(DecStr(n))}) |->
     IF i <= w - Len(DecStr(n)) THEN "0"
     ELSE DecStr(n)[i - Max({0, w - Len(DecStr(n))})]]

\* value.strftime('%Y-%m-%d')
Strftime(v) == ZeroPad(v.y, 4) \o <<"-">> \o ZeroPad(v.m, 2) \o <<"-">> \o ZeroPad(v.d, 2)

NoValue ==
  [type |-> "none", chars |-> <<>>, items |-> <<>>, n |-> 0, y |-> 0, m |-> 0, d |-> 0]

StrValue(s) == [NoValue EXCEPT !.type = "str", !.chars = s]
IntValue(i) == [NoValue EXCEPT !.type = "int", !.n = i]
BoolValue(b) == [NoValue EXCEPT !.type = "bool", !.n = IF b THEN 1 ELSE 0]
DateValue(yy, mm, dd) == [NoValue EXCEPT !.type = "date", !.y = yy, !.m = mm, !.d = dd]
ListValue(vs) == [NoValue EXCEPT !.type = "list", !.items = vs]
\* a nested mapping, kept as the characters of its repr
DictValue(repr) == [NoValue EXCEPT !.type = "dict", !.chars = repr]

\* str(v) of a value that is not a list
ScalarStr(v) ==
  IF v.type = "str" THEN v.chars
  ELSE IF v.type = "int" THEN DecStr(v.n)
  ELSE IF v.type = "bool" THEN (IF v.n = 1 THEN <<"T", "r", "u", "e">>
                                 ELSE <<"F", "a", "l", "s", "e">>)
  ELSE IF v.type = "date" THEN Strftime(v)
  ELSE IF v.type = "dict" THEN v.chars
  ELSE <<"N", "o", "n", "e">>

\* ', '.join(str(v) for v in value)
RECURSIVE JoinItems(_)
JoinItems(items) ==
  IF items = <<>> THEN <<>>
  ELSE IF Len(items) = 1 THEN ScalarStr(items[1])
  ELSE ScalarStr(items[1]) \o <<",", " ">> \o JoinItems(Tail(items))

\* the three branches on the type of a value (lines 310-315)
ValueStr(v) ==
  IF v.type = "list" THEN JoinItems(v.items)
  ELSE IF v.type = "date" THEN Strftime(v)
  ELSE ScalarStr(v)

HasTitle(metadata) ==
  \E k \in 1..Len(metadata) : metadata[k].key.str /\ metadata[k].key.chars = <<"t", "i", "t", "l", "e">>

TitleOf(metadata) ==
  metadata[CHOOSE k \in 1..Len(metadata) :
              metadata[k].key.str /\ metadata[k].key.chars = <<"t", "i", "t", "l", "e">>].value

IsTitleKey(key) == key.str /\ key.chars = <<"t", "i", "t", "l", "e">>

\* the pairs of the loop of lines 304-317: every key but 'title', in order
OtherPairs(metadata) == SelectSeq(metadata, LAMBDA p : ~IsTitleKey(p.key))

\* f"{key_display}: {value_str}"
FieldLine(p) == KeyDisplay(p.key.chars) \o <<":", " ">> \o ValueStr(p.value)

\* '\n'.join(lines)
RECURSIVE JoinLines(_)
JoinLines(lines) ==
  IF lines = <<>> THEN <<>>
  ELSE IF Len(lines) = 1 THEN lines[1]
  ELSE lines[1] \o <<"\n">> \o JoinLines(Tail(lines))

\* _format_front_matter_for_header: the text, or raised.  key.replace
\* raises AttributeError for a key that is not a str; '\n'.join raises
\* TypeError when the title, appended as it is, is not a str.
FormatFrontMatterForHeader(metadata) ==
  LET others == OtherPairs(metadata)
      title_lines == IF HasTitle(metadata) THEN <<TitleOf(metadata).chars>> ELSE <<>>
      field_lines == [k \in 1..Len(others) |-> FieldLine(others[k])]
  IN IF \E k \in 1..Len(others) : ~others[k].key.str
     THEN [raised |-> TRUE, text |-> <<>>]
     ELSE IF HasTitle(metadata) /\ TitleOf(metadata).type # "str"
     THEN [raised |-> TRUE, text |-> <<>>]
     ELSE [raised |-> FALSE, text |-> JoinLines(title_lines \o field_lines)]

\* ------------------------------------------------------------------ inputs
MdAlphabet == {"#", " ", "*", "_", "a", "\n"}

BoundedTexts == UNION { [1..n -> MdAlphabet] : n \in 0..MaxTextLen }

ScenarioA == <<"#", " ", "T", "i", "t", "l", "e", "\n", "\n", "H", "e", "l", "l", "o", " ", "*", "*", "w", "o", "r", "l", "d", "*", "*", "\n">>

ScenarioD == <<"*", "*", "a", "*", "*", " ", "*", "*", "b", "*", "*">>

NestedItalic == <<"*", "*", "a", "*", "b", "*", "c", "*", "*">>

ItalicAroundBold == <<"_", "*", "*", "a", "*", "*", "_">>

TwoItalics == <<"*", "a", "*", "a", "*">>

SevenMarks == <<"#", "#", "#", "#", "#", "#", "#", " ", "a">>

SixMarks == <<"#", "#", "#", "#", "#", "#", " ", "a">>

AdjacentItalics == <<"_", "a", "_", "*", "a", "*">>

RepeatedLine == <<"a", "\n", "*", "a", "*", "\n", "a", "a", "\n", "*", "a", "*">>

ScenarioTexts == { AdjacentItalics, ScenarioA, ScenarioD, NestedItalic, ItalicAroundBold, TwoItalics, SevenMarks, SixMarks, RepeatedLine }

MdTexts == BoundedTexts \cup ScenarioTexts

UrlPublic == <<"https", "://", "93.184.216.34", "/x.png">>
UrlMetadataIp == <<"http", "://", "169.254.169.254", "/latest/meta-data/">>

ImageUrls ==
  { UrlPublic, UrlMetadataIp,
    <<"https", "://", "example", ".", "com", "/x.png">>,
    <<"http", "://", "10.0.0.5", "/x.png">>,
    <<"http", "://", "127.0.0.1", "/x.png">>,
    <<"http", "://", "240.0.0.1", "/x.png">>,
    <<"http", "://", "127.1", "/x.png">>,
    <<"http", "://", "localhost", "/x.png">>,
    <<"HTTP", "://", "LOCALHOST", ".", "localdomain", "/x.png">>,
    <<"http", "://", "MetaData", ".", "google", ".", "internal", "/x.png">>,
    <<"http", "://", "my", "instance-data", ".", "com", "/x.png">>,
    <<"http", "://", "[bad", "/x.png">>,
    <<"http", "://", "/x.png">>,
    <<"ftp", "://", "example", ".", "com", "/x.png">>,
    <<"file", "://", "/etc/passwd">>,
    <<"/x.png">>,
    <<"data", ":", "image/", "png;base64,AAAA">>,
    <<"DATA", ":", "image/", "png;base64,AAAA">>,
    <<"data", ":", "text/", "html,x">> }

NoSrc == <<>>

Flavour(k, t, u) == [kind |-> k, text |-> t, src |-> u]

Flavours ==
  { Flavour(k, <<>>, NoSrc) : k \in Containers \cup {"br"} }
    \cup { Flavour("img", <<>>, u) : u \in {UrlPublic, UrlMetadataIp} }
    \cup { Flavour("text", t, NoSrc) : t \in { <<"a">>, <<" ">> } }

RECURSIVE IsAncestorOrSelf(_, _, _)
IsAncestorOrSelf(par, a, n) ==
  a = n \/ (n # 0 /\ IsAncestorOrSelf(par, a, par[n]))

\* parent maps of trees whose nodes are numbered in document order
ParentMaps(n) ==
  { par \in [1..n -> 0..(n - 1)] :
      \A i \in 1..n : IF i = 1 THEN par[i] = 0
                      ELSE IsAncestorOrSelf(par, par[i], i - 1) }

\* what the parser can build: only container tags have children, and two
\* adjacent strings are one string
WellFormed(fl, par) ==
  \A i \in 1..Len(fl) :
     /\ par[i] # 0 => fl[par[i]].kind \in Containers
     /\ (i > 1 /\ fl[i].kind = "text" /\ fl[i - 1].kind = "text")
           => par[i] # par[i - 1]

TreeOf(fl, par) ==
  [i \in 1..Len(fl) |->
     [kind |-> fl[i].kind, parent |-> par[i], text |-> fl[i].text, src |-> fl[i].src]]

\* documents of one image, with each of the URLs or with no src at all, and
\* an image with no src followed by text
ImageTrees ==
  { <<[kind |-> "img", parent |-> 0, text |-> <<>>, src |-> u]>> : u \in ImageUrls \cup {NoSrc} }
    \cup { <<[kind |-> "img", parent |-> 0, text |-> <<>>, src |-> NoSrc],
             [kind |-> "text", parent |-> 0, text |-> <<"a">>, src |-> NoSrc]>> }

\* keys and values of front matter
TitleKey == [str |-> TRUE, chars |-> <<"t", "i", "t", "l", "e">>]
TagsKey == [str |-> TRUE, chars |-> <<"t", "a", "g", "s">>]

MetaKeys ==
  { TitleKey, TagsKey,
    [str |-> TRUE, chars |-> <<"m", "y", "_", "U", "R", "L">>],
    [str |-> FALSE, chars |-> <<"1">>] }

Report == StrValue(<<"R", "e", "p", "o", "r", "t">>)
TagsAB == ListValue(<<StrValue(<<"a">>), StrValue(<<"b">>)>>)

MetaValues ==
  { Report, TagsAB,
    StrValue(<<>>),
    ListValue(<<IntValue(1), DateValue(2024, 1, 5)>>),
    DateValue(2024, 1, 5),
    IntValue(1984),
    BoolValue(TRUE),
    NoValue,
    DictValue(<<"{", "'", "a", "'", ":", " ", "1", "}">>) }

MetaPairs == { [key |-> k, value |-> v] : k \in MetaKeys, v \in MetaValues }

\* the mappings of n pairs: a dict has no key twice
Metadatas(n) ==
  { md \in [1..n -> MetaPairs] :
      \A i, j \in 1..n : i # j => md[i].key # md[j].key }

ScenarioC == << [key |-> TitleKey, value |-> Report], [key |-> TagsKey, value |-> TagsAB] >>

\* the bodies converted together with front matter
HeaderBodies == { <<"a">> }

\* the title argument of convert / convert_html
TitleArg == StrValue(<<"D", "o", "c">>)

\* what the Google APIs do during one conversion: every call succeeds, or
\* the call of one step raises; status is the status of the HttpError, or
\* NotHttp for an exception that is not an HttpError
NotHttp == 0
NoFault == [at |-> "none", status |-> NotHttp]
FaultSteps == {"create", "header_create", "header_insert", "body", "public", "link"}
Statuses == {429, 403, 500}
FaultPlans ==
  {NoFault} \cup { [at |-> a, status |-> st] : a \in FaultSteps, st \in Statuses \cup {NotHttp} }

\* what frontmatter.loads(content) did: returned a post, or raised
Loaded(md, body) == [raised |-> FALSE, metadata |-> md, content |-> body]
LoadsRaised == [raised |-> TRUE, metadata |-> <<>>, content |-> <<>>]

\* _parse_markdown: the post's metadata and content, or on any exception
\* no metadata and the whole content
ParseMarkdown(content, post) ==
  IF post.raised THEN [metadata |-> <<>>, body |-> content]
  ELSE [metadata |-> post.metadata, body |-> post.content]

MdInput(t) ==
  [dialect |-> "md", text |-> t, nodes |-> <<>>, successor_first |-> FALSE,
   metadata |-> <<>>, title |-> TitleArg, make_public |-> FALSE,
   fault |-> NoFault, content |-> <<>>, unparsable |-> FALSE]

MdInputWith(t, md) == [MdInput(t) EXCEPT !.metadata = md]

HtmlInput(t, sf) ==
  [dialect |-> "html", text |-> <<>>, nodes |-> t, successor_first |-> sf,
   metadata |-> <<>>, title |-> TitleArg, make_public |-> FALSE,
   fault |-> NoFault, content |-> <<>>, unparsable |-> FALSE]

\* convert(content, TitleArg, make_public) with the answer of the library
\* and of the APIs
ConvertInput(content, post, make_public, fault) ==
  LET parsed == ParseMarkdown(content, post) IN
  [MdInput(parsed.body) EXCEPT !.metadata = parsed.metadata,
                               !.make_public = make_public, !.fault = fault,
                               !.content = content, !.unparsable = post.raised]

\* convert_html(tree, TitleArg, make_public) with the answer of the APIs
ConvertHtmlInput(t, sf, make_public, fault) ==
  [HtmlInput(t, sf) EXCEPT !.make_public = make_public, !.fault = fault]

\* front matter whose YAML does not parse, and its body
BrokenFrontMatter ==
  <<"-", "-", "-", "\n", "t", "i", "t", "l", "e", ":", " ", "[", "\n", "-", "-", "-", "\n", "a">>

\* "---\ntitle: Report\ntags: [a, b]\n---\na", which the library parses
\* into ScenarioC and the body "a"
ScenarioCContent ==
  <<"-", "-", "-", "\n", "t", "i", "t", "l", "e", ":", " ", "R", "e", "p", "o", "r", "t", "\n",
    "t", "a", "g", "s", ":", " ", "[", "a", ",", " ", "b", "]", "\n", "-", "-", "-", "\n", "a">>

OneParagraph == <<[kind |-> "p", parent |-> 0, text |-> <<>>, src |-> NoSrc],
                  [kind |-> "text", parent |-> 1, text |-> <<"a">>, src |-> NoSrc]>>

\* the conversions whose API calls may fail and whose document may be made
\* public: a text with front matter, a text whose front matter does not
\* parse, an HTML paragraph and an empty HTML document
ApiInputs ==
  { ConvertInput(ScenarioCContent, Loaded(ScenarioC, <<"a">>), mp, f) :
       mp \in BOOLEAN, f \in FaultPlans }
    \cup { ConvertInput(BrokenFrontMatter, LoadsRaised, mp, f) :
              mp \in BOOLEAN, f \in FaultPlans }
    \cup { ConvertHtmlInput(t, TRUE, mp, f) :
              t \in {OneParagraph, <<>>}, mp \in BOOLEAN, f \in FaultPlans }

\* ------------------------------------------------------------------- state
\* input: the text or tree being converted, and the library variant
\* pc: where the conversion is;  lineno: lines of the text already processed
\* dom: the links of the tree;  cur: the element the walk's generator is at
\* requests: the command list;  current_index: the cursor
\* call: the latest _create_image_request call
\* fetches: the requests.get calls made (url, address connected to)
\* uploads: the files().create calls made (content type, size)
\* header_id: the id in the reply to createHeader
\* batches: the batchUpdate calls made, in order (segment, requests)
\* running: the conversion request whose turn it is (1 or 2)
\* other: the locals of the request that is waiting, when two run at once
\* outcome: the title the document was created with, whether it was made
\*   public, the title in the returned result, and the error raised
VARIABLES input, pc, lineno, dom, cur, requests, current_index, call, fetches, uploads, header_id, batches, running, other, outcome

vars == <<input, pc, lineno, dom, cur, requests, current_index, call, fetches, uploads, header_id, batches, running, other, outcome>>

NoCall ==
  [url |-> <<>>, index |-> 0, nreq |-> 0, result |-> "none", header |-> <<>>, size |-> 0]

Lines == SplitLines(input.text)

NoHeader == ""
HeaderIds == {"kix.h1", "kix.h2"}

\* one documents().batchUpdate call: the segment its commands address
\* (NoHeader for the body) and the commands
Batch(segment, reqs) == [segment |-> segment, requests |-> reqs]

CreateHeaderRequest ==
  [type |-> "createHeader", index |-> 0, text |-> NoText,
   startIndex |-> 0, endIndex |-> 0, style |-> "DEFAULT", uri |-> NoText]

FontSize10 == "fontSize 10 PT"

\* no title yet: nothing created, nothing returned
NoTitle == [NoValue EXCEPT !.type = "absent"]

NoError == [message |-> "", status |-> 0]

NoOutcome == [title |-> NoTitle, public |-> FALSE, result |-> NoTitle, error |-> NoError]

\* ErrorFor with no clause for status 429
ErrorFor_NoRateLimit(dialect, status) ==
  IF status = NotHttp
  THEN [message |-> IF dialect = "md" THEN "Unexpected error during conversion: "
                    ELSE "Unexpected error during HTML conversion: ",
        status |-> 0]
  ELSE IF status = 403
  THEN [message |-> "Permission denied. Please re-authenticate.", status |-> 0]
  ELSE [message |-> IF dialect = "md" THEN "Failed to convert to Google Docs: "
                    ELSE "Failed to convert HTML to Google Docs: ",
        status |-> status]

\* the except clauses of convert and convert_html: the
\* GoogleDocsConversionError raised for an HttpError of the given status,
\* or for any other exception (NotHttp)
ErrorFor(dialect, status) ==
  IF status = NotHttp
  THEN [message |-> IF dialect = "md" THEN "Unexpected error during conversion: "
                    ELSE "Unexpected error during HTML conversion: ",
        status |-> 0]
  ELSE IF status = 429
  THEN [message |-> "Rate limit exceeded. Please try again in a minute.", status |-> 0]
  ELSE IF status = 403
  THEN [message |-> "Permission denied. Please re-authenticate.", status |-> 0]
  ELSE [message |-> IF dialect = "md" THEN "Failed to convert to Google Docs: "
                    ELSE "Failed to convert HTML to Google Docs: ",
        status |-> status]

\* the locals of one conversion request before its first step
InitLocals(inp) ==
  [input |-> inp, pc |-> "create", header_id |-> NoHeader, batches |-> <<>>,
   outcome |-> NoOutcome,
   lineno |-> 0, dom |-> InitialDom(inp.nodes),
   cur |-> IF Contents(InitialDom(inp.nodes), 0) = {} THEN NoneVal
           ELSE Min(Contents(InitialDom(inp.nodes), 0)),
   requests |-> <<>>, current_index |-> StartIndex, call |-> NoCall]

\* no second request
NoOther == [pc |-> "absent"]

InitLocalsAre(inp) ==
  /\ input = inp
  /\ pc = "create"
  /\ header_id = NoHeader
  /\ batches = <<>>
  /\ outcome = NoOutcome
  /\ lineno = 0
  /\ dom = InitialDom(inp.nodes)
  /\ cur = IF Contents(InitialDom(inp.nodes), 0) = {} THEN NoneVal
           ELSE Min(Contents(InitialDom(inp.nodes), 0))
  /\ requests = <<>>
  /\ current_index = StartIndex
  /\ call = NoCall
  /\ fetches = {}
  /\ uploads = {}
  /\ running = 1

InitWith(inp) == InitLocalsAre(inp) /\ other = NoOther

Init ==
  \/ \E t \in MdTexts : InitWith(MdInput(t))
  \/ \E t \in HeaderBodies : \E n \in 1..MaxKeys : \E md \in Metadatas(n) :
        InitWith(MdInputWith(t, md))
  \/ InitWith(MdInputWith(ScenarioA, ScenarioC))
  \/ \E n \in 0..MaxNodes : \E par \in ParentMaps(n) : \E fl \in [1..n -> Flavours] :
        /\ WellFormed(fl, par)
        /\ \E sf \in BOOLEAN : InitWith(HtmlInput(TreeOf(fl, par), sf))
  \/ \E t \in ImageTrees : \E sf \in BOOLEAN : InitWith(HtmlInput(t, sf))
  \/ \E inp \in ApiInputs : InitWith(inp)

\* ---------------------------------------------- convert / convert_html
\* an API call raised: the except clauses turn the exception into a
\* GoogleDocsConversionError and the conversion ends
Raise(status) ==
  /\ pc' = "failed"
  /\ outcome' = [outcome EXCEPT !.error = ErrorFor(input.dialect, status)]

\* if 'title' in metadata: title = metadata['title']
FinalTitle ==
  IF HasTitle(input.metadata) THEN TitleOf(input.metadata) ELSE input.title

\* CreateDocument creating the document before the front matter is looked at
CreateDocument_ArgTitle ==
  /\ pc = "create"
  /\ \/ /\ input.fault.at # "create"
        /\ pc' = IF input.metadata # <<>> THEN "header_create" ELSE input.dialect
        /\ outcome' = [outcome EXCEPT !.title = input.title]
     \/ /\ input.fault.at = "create"
        /\ Raise(input.fault.status)
  /\ UNCHANGED <<running, other, header_id, batches, input, lineno, dom, cur, requests, current_index, call, fetches, uploads>>

\* documents().create with the title; the title of the front matter
\* replaces the one passed in.  A title that is not a string is sent as
\* it is: the client may fail to serialise it, or the API may refuse it.
CreateDocument ==
  /\ pc = "create"
  /\ \/ /\ input.fault.at # "create"
        /\ pc' = IF input.metadata # <<>> THEN "header_create" ELSE input.dialect
        /\ outcome' = [outcome EXCEPT !.title = FinalTitle]
     \/ /\ input.fault.at = "create"
        /\ Raise(input.fault.status)
     \/ /\ FinalTitle.type # "str"
        /\ pc' = "aborted"
        /\ \E st \in {400, NotHttp} :
              outcome' = [outcome EXCEPT !.error = ErrorFor(input.dialect, st)]
  /\ UNCHANGED <<running, other, header_id, batches, input, lineno, dom, cur, requests, current_index, call, fetches, uploads>>

\* ---------------------------------------------- _create_first_page_header
\* the first batch: createHeader; the reply carries the header id
CreateHeader ==
  /\ pc = "header_create"
  /\ IF input.fault.at = "header_create"
     THEN Raise(input.fault.status) /\ UNCHANGED <<batches, header_id>>
     ELSE /\ batches' = Append(batches, Batch(NoHeader, <<CreateHeaderRequest>>))
          /\ \E id \in HeaderIds : header_id' = id
          /\ pc' = "header_insert"
          /\ UNCHANGED outcome
  /\ UNCHANGED <<running, other, input, lineno, dom, cur, requests, current_index, call, fetches, uploads>>

\* HeaderRequests with one style command per line of the header
HeaderRequests_PerField(header_text) ==
  <<InsertText(0, header_text)>>
    \o [k \in 1..Len(SplitLines(header_text)) |->
          UpdateTextStyle(0, StrLen(header_text), FontSize10)]

\* insertText at index 0 of the segment, then one updateTextStyle over the
\* whole text if there is any
HeaderRequests(header_text) ==
  <<InsertText(0, header_text)>>
    \o (IF StrLen(header_text) > 0
        THEN <<UpdateTextStyle(0, StrLen(header_text), FontSize10)>>
        ELSE <<>>)

\* InsertHeader moving the body cursor past the header text, as when the
\* front matter was written into the body
InsertHeader_SharedCursor ==
  /\ pc = "header_insert"
  /\ LET h == FormatFrontMatterForHeader(input.metadata) IN
       IF h.raised
       THEN /\ pc' = "aborted"
            /\ outcome' = [outcome EXCEPT !.error = ErrorFor(input.dialect, NotHttp)]
            /\ UNCHANGED <<batches, current_index>>
       ELSE IF input.fault.at = "header_insert"
       THEN Raise(input.fault.status) /\ UNCHANGED <<batches, current_index>>
       ELSE /\ batches' = Append(batches, Batch(header_id, HeaderRequests(h.text)))
            /\ current_index' = current_index + StrLen(h.text)
            /\ pc' = input.dialect
            /\ UNCHANGED outcome
  /\ UNCHANGED <<running, other, header_id, input, lineno, dom, cur, requests, call, fetches, uploads>>

\* the second batch: the header text and its style, in the new segment;
\* an exception of the formatter ends convert() with
\* GoogleDocsConversionError
InsertHeader ==
  /\ pc = "header_insert"
  /\ LET h == FormatFrontMatterForHeader(input.metadata) IN
       IF h.raised
       THEN /\ pc' = "aborted"
            /\ outcome' = [outcome EXCEPT !.error = ErrorFor(input.dialect, NotHttp)]
            /\ UNCHANGED batches
       ELSE IF input.fault.at = "header_insert"
       THEN Raise(input.fault.status) /\ UNCHANGED batches
       ELSE /\ batches' = Append(batches, Batch(header_id, HeaderRequests(h.text)))
            /\ pc' = input.dialect
            /\ UNCHANGED outcome
  /\ UNCHANGED <<running, other, header_id, input, lineno, dom, cur, requests, current_index, call, fetches, uploads>>

\* --------------------------------- _apply_content / _apply_html_content
\* the requests the parser returned go out in one batch, unless there are
\* none
ApplyBody ==
  /\ pc = "done"
  /\ IF requests = <<>>
     THEN pc' = "applied" /\ UNCHANGED <<batches, outcome>>
     ELSE IF input.fault.at = "body"
     THEN Raise(input.fault.status) /\ UNCHANGED batches
     ELSE /\ batches' = Append(batches, Batch(NoHeader, requests))
          /\ pc' = "applied"
          /\ UNCHANGED outcome
  /\ UNCHANGED <<running, other, header_id, input, lineno, dom, cur, requests, current_index, call, fetches, uploads>>

\* ------------------------------------------- _make_public, _get_share_link
\* MakePublic run as soon as the commands are built, before they are applied
MakePublic_BeforeBody ==
  /\ pc = "done" /\ input.make_public /\ ~outcome.public
  /\ IF input.fault.at = "public"
     THEN Raise(input.fault.status)
     ELSE pc' = pc /\ outcome' = [outcome EXCEPT !.public = TRUE]
  /\ UNCHANGED <<running, other, header_id, batches, input, lineno, dom, cur, requests, current_index, call, fetches, uploads>>

\* if make_public: permissions().create(type anyone, role reader)
MakePublic ==
  /\ pc = "applied" /\ input.make_public
  /\ IF input.fault.at = "public"
     THEN Raise(input.fault.status)
     ELSE pc' = "published" /\ outcome' = [outcome EXCEPT !.public = TRUE]
  /\ UNCHANGED <<running, other, header_id, batches, input, lineno, dom, cur, requests, current_index, call, fetches, uploads>>

\* files().get(fields webViewLink), then the result is returned with the
\* title the document was created with
GetShareLink ==
  /\ pc = "published" \/ (pc = "applied" /\ ~input.make_public)
  /\ IF input.fault.at = "link"
     THEN Raise(input.fault.status)
     ELSE pc' = "returned" /\ outcome' = [outcome EXCEPT !.result = FinalTitle]
  /\ UNCHANGED <<running, other, header_id, batches, input, lineno, dom, cur, requests, current_index, call, fetches, uploads>>

\* ------------------------------------------- _parse_markdown_to_requests
\* what the parser returns: the list when it has more than one command, the
\* one command itself, not in a list, when it has one, and an insertText of
\* the raw text at index 1 when it has none
ParserReturn(reqs, text) ==
  IF reqs = <<>> THEN [is_list |-> FALSE, items |-> <<InsertText(1, text)>>]
  ELSE IF Len(reqs) > 1 THEN [is_list |-> TRUE, items |-> reqs]
  ELSE [is_list |-> FALSE, items |-> <<reqs[1]>>]

\* BuildRequests taking over a list only
BuildRequests_ListOnly(md_requests) ==
  IF md_requests.is_list THEN md_requests.items ELSE <<>>

\* _build_requests: a list is taken over, a single command is appended
BuildRequests(md_requests) ==
  IF md_requests.is_list THEN md_requests.items
  ELSE IF md_requests.items # <<>> THEN <<md_requests.items[1]>>
  ELSE <<>>

MdLine ==
  /\ pc = "md"
  /\ lineno < Len(Lines)
  /\ LET line == Lines[lineno + 1] IN
       /\ requests' = requests \o LineRequests(current_index, line)
       /\ current_index' = current_index + LineAdvance(line)
  /\ lineno' = lineno + 1
  /\ UNCHANGED <<running, other, outcome, header_id, batches, input, pc, dom, cur, call, fetches, uploads>>

\* the loop is over: the parser returns and _build_requests makes the list
\* that _apply_content submits
MdReturn ==
  /\ pc = "md"
  /\ lineno = Len(Lines)
  /\ requests' = BuildRequests(ParserReturn(requests, input.text))
  /\ pc' = "done"
  /\ UNCHANGED <<running, other, outcome, header_id, batches, input, lineno, dom, cur, current_index, call, fetches, uploads>>

\* ----------------------------------------------- _parse_html_to_requests
\* the generator of body.descendants stops after the last descendant
OuterStop == NoneVal

AtElement == pc = "html" /\ ~Exhausted(cur, OuterStop, input.successor_first)

Kind == KindOf(input.nodes, cur)

Advance(d2) == Successor(dom, d2, cur, input.successor_first)

\* HtmlHeadingRequests styling the newline too
HtmlHeadingRequests_WithNewline(ci, text, level) ==
  << InsertText(ci, text),
     UpdateParagraphStyle(ci, ci + StrLen(text), HeadingType(level)) >>

HtmlHeadingRequests(ci, text, level) ==
  << InsertText(ci, text),
     UpdateParagraphStyle(ci, ci + StrLen(text) - 1, HeadingType(level)) >>

HtmlParagraphRequests(ci, text) == <<InsertText(ci, text)>>

\* whitespace-only string: continue
HtmlSkipBlank ==
  /\ AtElement
  /\ Kind = "text" /\ IsBlank(input.nodes[cur].text)
  /\ cur' = Advance(dom)
  /\ UNCHANGED <<running, other, outcome, header_id, batches, input, pc, lineno, dom, requests, current_index, call, fetches, uploads>>

\* h1..h6 and p: insert the flattened text, then extract the descendants
HtmlBlock(reqs, len) ==
  LET c == ConsumeChildren(input.nodes, dom, cur, input.successor_first) IN
  /\ requests' = requests \o reqs
  /\ current_index' = current_index + len
  /\ dom' = c.dom
  /\ IF c.raised
     THEN /\ pc' = "raised" /\ cur' = cur
          /\ outcome' = [outcome EXCEPT !.error = ErrorFor(input.dialect, NotHttp)]
     ELSE pc' = pc /\ cur' = Advance(c.dom) /\ UNCHANGED outcome
  /\ UNCHANGED <<running, other, header_id, batches, input, lineno, call, fetches, uploads>>

HtmlHeading ==
  /\ AtElement
  /\ Kind \in {"h1", "h6"}
  /\ LET text == GetText(input.nodes, dom, cur) \o <<"\n">> IN
       HtmlBlock(HtmlHeadingRequests(current_index, text, HeadingLevelOf(Kind)),
                 StrLen(text))

HtmlParagraph ==
  /\ AtElement
  /\ Kind = "p"
  /\ LET text == GetText(input.nodes, dom, cur) \o <<"\n">> IN
       HtmlBlock(HtmlParagraphRequests(current_index, text), StrLen(text))

\* img with a src: call _create_image_request(img_url, current_index)
HtmlImage ==
  /\ AtElement
  /\ Kind = "img" /\ input.nodes[cur].src # NoSrc
  /\ call' = [NoCall EXCEPT !.url = input.nodes[cur].src, !.index = current_index,
                            !.nreq = Len(requests), !.result = "pending"]
  /\ pc' = "img_validate"
  /\ cur' = Advance(dom)
  /\ UNCHANGED <<running, other, outcome, header_id, batches, input, lineno, dom, requests, current_index, fetches, uploads>>

HtmlBr ==
  /\ AtElement
  /\ Kind = "br"
  /\ requests' = Append(requests, InsertText(current_index, <<"\n">>))
  /\ current_index' = current_index + 1
  /\ cur' = Advance(dom)
  /\ UNCHANGED <<running, other, outcome, header_id, batches, input, pc, lineno, dom, call, fetches, uploads>>

\* any other node (a string outside a block, another tag, img without src)
\* matches no branch
HtmlOther ==
  /\ AtElement
  /\ \/ Kind = "text" /\ ~IsBlank(input.nodes[cur].text)
     \/ Kind = "div"
     \/ Kind = "img" /\ input.nodes[cur].src = NoSrc
  /\ cur' = Advance(dom)
  /\ UNCHANGED <<running, other, outcome, header_id, batches, input, pc, lineno, dom, requests, current_index, call, fetches, uploads>>

\* after the loop: if no request was created, insert the plain text at 1
\* FallbackRequests inserting the text even when it is blank
FallbackRequests_Always(text) == <<InsertText(1, text)>>

FallbackRequests(text) ==
  IF IsBlank(text) THEN <<>> ELSE <<InsertText(1, text)>>

HtmlReturn ==
  /\ pc = "html"
  /\ Exhausted(cur, OuterStop, input.successor_first)
  /\ requests' = IF requests = <<>>
                 THEN FallbackRequests(GetText(input.nodes, dom, 0))
                 ELSE requests
  /\ pc' = "done"
  /\ UNCHANGED <<running, other, outcome, header_id, batches, input, lineno, dom, cur, current_index, call, fetches, uploads>>

\* ------------------------------------------------ _create_image_request
\* the call returned a request: append it, the image takes one index
EmitImage(file_id) ==
  /\ requests' = Append(requests, InsertInlineImage(call.index, DriveUri(file_id)))
  /\ current_index' = current_index + 1

\* the call returned None: nothing is appended
EmitNothing == UNCHANGED <<requests, current_index>>

\* the call raised: the except branch inserts the placeholder text
EmitPlaceholder ==
  /\ requests' = Append(requests, InsertText(current_index, Placeholder(call.url)))
  /\ current_index' = current_index + StrLen(Placeholder(call.url))

\* ImgValidate going on to the fetch whatever the validator says
ImgValidate_NoCheck ==
  /\ pc = "img_validate"
  /\ pc' = "img_fetch"
  /\ UNCHANGED call
  /\ EmitNothing
  /\ UNCHANGED <<running, other, outcome, header_id, batches, input, lineno, dom, cur, fetches, uploads>>

ImgValidate ==
  /\ pc = "img_validate"
  /\ IF validate_image_url(call.url)
     THEN pc' = "img_fetch" /\ UNCHANGED call
     ELSE pc' = "html" /\ call' = [call EXCEPT !.result = "rejected"]
  /\ EmitNothing
  /\ UNCHANGED <<running, other, outcome, header_id, batches, input, lineno, dom, cur, fetches, uploads>>

\* requests.get raised (no adapter, connection error, timeout) or
\* raise_for_status raised
ImgFetchError ==
  /\ pc = "img_fetch"
  /\ \E addr \in IF HasAdapter(call.url)
                 THEN ResolvesTo(UrlParse(call.url).hostname) ELSE {"none"} :
        fetches' = fetches \cup {[url |-> call.url, addr |-> addr]}
  /\ call' = [call EXCEPT !.result = "fetch_error"]
  /\ EmitPlaceholder
  /\ pc' = "html"
  /\ UNCHANGED <<running, other, outcome, header_id, batches, input, lineno, dom, cur, uploads>>

ImgFetchResponse ==
  /\ pc = "img_fetch"
  /\ HasAdapter(call.url)
  /\ \E addr \in ResolvesTo(UrlParse(call.url).hostname) :
        fetches' = fetches \cup {[url |-> call.url, addr |-> addr]}
  /\ \E header \in ContentTypes, size \in BodySizes :
        LET result == IF ~IsImageType(ContentTypeOf(header)) THEN "not_image"
                      ELSE IF TooLarge(size) THEN "too_large"
                      ELSE "pending"
        IN /\ call' = [call EXCEPT !.header = header, !.size = size, !.result = result]
           /\ pc' = IF result = "pending" THEN "img_upload" ELSE "html"
  /\ EmitNothing
  /\ UNCHANGED <<running, other, outcome, header_id, batches, input, lineno, dom, cur, uploads>>

ImgUploadOk ==
  /\ pc = "img_upload"
  /\ uploads' = uploads \cup {[content_type |-> ContentTypeOf(call.header), size |-> call.size]}
  /\ \E file_id \in FileIds : EmitImage(file_id)
  /\ call' = [call EXCEPT !.result = "inserted"]
  /\ pc' = "html"
  /\ UNCHANGED <<running, other, outcome, header_id, batches, input, lineno, dom, cur, fetches>>

\* files().create raised HttpError
ImgUploadError ==
  /\ pc = "img_upload"
  /\ uploads' = uploads \cup {[content_type |-> ContentTypeOf(call.header), size |-> call.size]}
  /\ call' = [call EXCEPT !.result = "upload_error"]
  /\ EmitPlaceholder
  /\ pc' = "html"
  /\ UNCHANGED <<running, other, outcome, header_id, batches, input, lineno, dom, cur, fetches>>

Next ==
  \/ CreateDocument
  \/ CreateHeader
  \/ InsertHeader
  \/ ApplyBody
  \/ MakePublic
  \/ GetShareLink
  \/ MdLine
  \/ MdReturn
  \/ HtmlSkipBlank
  \/ HtmlHeading
  \/ HtmlParagraph
  \/ HtmlImage
  \/ HtmlBr
  \/ HtmlOther
  \/ HtmlReturn
  \/ ImgValidate
  \/ ImgFetchError
  \/ ImgFetchResponse
  \/ ImgUploadOk
  \/ ImgUploadError

Spec == Init /\ [][Next]_vars

\* ------------------------------------------- two requests running at once
\* Each request is handled by its own call of convert / convert_html on its
\* own converter: requests, current_index and the other locals live in the
\* frame of the call.  The network (fetches) and Drive (uploads) are the
\* same for both.
Locals ==
  [input |-> input, pc |-> pc, header_id |-> header_id, batches |-> batches,
   outcome |-> outcome, lineno |-> lineno, dom |-> dom, cur |-> cur,
   requests |-> requests, current_index |-> current_index, call |-> call]

Finished(p) == p \in {"returned", "failed", "raised", "aborted"}

\* a request waits for the network: the calls of the Docs API, the fetch
\* of an image and its upload to Drive
Suspended(p) ==
  p \in {"create", "header_create", "header_insert", "img_fetch", "img_upload", "done",
         "applied", "published"}

\* Switch with the cursor kept in one place for both requests
Switch_SharedCursor ==
  /\ Suspended(pc) \/ Finished(pc)
  /\ ~Finished(other.pc)
  /\ input' = other.input /\ pc' = other.pc
  /\ header_id' = other.header_id /\ batches' = other.batches
  /\ outcome' = other.outcome
  /\ lineno' = other.lineno /\ dom' = other.dom /\ cur' = other.cur
  /\ requests' = other.requests /\ call' = other.call
  /\ other' = Locals
  /\ running' = 3 - running
  /\ UNCHANGED <<current_index, fetches, uploads>>

\* the request that is running waits or has ended, and the other one goes
\* on from where it stopped, with its own locals
Switch ==
  /\ Suspended(pc) \/ Finished(pc)
  /\ ~Finished(other.pc)
  /\ input' = other.input /\ pc' = other.pc
  /\ header_id' = other.header_id /\ batches' = other.batches
  /\ outcome' = other.outcome
  /\ lineno' = other.lineno /\ dom' = other.dom /\ cur' = other.cur
  /\ requests' = other.requests /\ current_index' = other.current_index
  /\ call' = other.call
  /\ other' = Locals
  /\ running' = 3 - running
  /\ UNCHANGED <<fetches, uploads>>

PairTree(kinds, texts, srcs) ==
  [i \in 1..Len(kinds) |->
     [kind |-> kinds[i], parent |-> 0, text |-> texts[i], src |-> srcs[i]]]

\* the documents converted side by side: three with one image each, and a
\* text with front matter that is to be made public
PairInputs ==
  { HtmlInput(PairTree(<<"img", "h1", "br">>, <<<<>>, <<>>, <<>>>>,
                       <<UrlPublic, NoSrc, NoSrc>>), TRUE),
    HtmlInput(PairTree(<<"text", "img", "p">>, <<<<" ">>, <<>>, <<>>>>,
                       <<NoSrc, UrlMetadataIp, NoSrc>>), FALSE),
    HtmlInput(PairTree(<<"br", "img", "text">>, <<<<>>, <<>>, <<"a">>>>,
                       <<NoSrc, UrlPublic, NoSrc>>), FALSE),
    [MdInputWith(ScenarioD, ScenarioC) EXCEPT !.make_public = TRUE] }

InitPair ==
  \E a, b \in PairInputs :
     /\ InitLocalsAre(a)
     /\ other = InitLocals(b)

NextPair == Next \/ Switch

SpecPair == InitPair /\ [][NextPair]_vars

\* ------------------------------------------------------------ properties
IsInsert(c) == c.type \in {"insertText", "insertInlineImage"}
IsStyle(c) == c.type \in {"updateTextStyle", "updateParagraphStyle"}

\* the length a command adds to the document; an image counts as 1
InsertedLen(c) ==
  IF c.type = "insertText" THEN StrLen(c.text)
  ELSE IF c.type = "insertInlineImage" THEN 1 ELSE 0

\* the total length inserted by the first k commands
RECURSIVE Inserted(_, _)
Inserted(reqs, k) ==
  IF k = 0 THEN 0 ELSE Inserted(reqs, k - 1) + InsertedLen(reqs[k])

InsertsAtRunningTotal ==
  \A k \in 1..Len(requests) :
     IsInsert(requests[k]) =>
        requests[k].index = StartIndex + Inserted(requests, k - 1)

CursorIsTotal == current_index = StartIndex + Inserted(requests, Len(requests))

\* the parser has returned
AfterParse == {"done", "applied", "published", "returned", "failed"}

\* the fallback of the HTML emitter ran: one insert at 1, cursor untouched
FallbackRan ==
  /\ pc \in AfterParse /\ input.dialect = "html"
  /\ current_index = StartIndex
  /\ requests = <<InsertText(1, GetText(input.nodes, dom, 0))>>

\* C1 as stated: every insert is placed at the origin plus the length
\* inserted before it, and the final cursor is the origin plus the sum of
\* all inserted lengths.
C1_FinalCursorIsSum ==
  /\ InsertsAtRunningTotal
  /\ pc = "done" => CursorIsTotal

\* C1 amended: the cursor never decreases, every insert is placed at the
\* origin plus the length inserted before it, and the cursor equals the
\* origin plus the sum of the inserted lengths at every point of the
\* emission; only the HTML fallback insert, appended after the walk at
\* index 1, leaves the cursor at the origin.
C1_CursorTracksInserts ==
  /\ [](InsertsAtRunningTotal /\ (CursorIsTotal \/ FallbackRan))
  /\ [][current_index' >= current_index]_vars

\* an emission with an image after the first command, at its end
C1_Witness ==
  /\ pc = "done"
  /\ CursorIsTotal
  /\ \E k \in 2..Len(requests) : requests[k].type = "insertInlineImage"

\* the nearest insertText before command k (0 if there is none)
InsertBefore(reqs, k) ==
  LET js == { j \in 1..(k - 1) : reqs[j].type = "insertText" } IN
  IF js = {} THEN 0 ELSE Max(js)

\* C2: every style command's range starts at or after the origin, is not
\* reversed, and lies between the cursor before and the cursor after the
\* insertText it belongs to.
C2_StyleRangeInsideInsert ==
  \A k \in 1..Len(requests) :
     IsStyle(requests[k]) =>
        LET j == InsertBefore(requests, k) IN
        /\ j # 0
        /\ requests[k].startIndex >= StartIndex
        /\ requests[k].startIndex <= requests[k].endIndex
        /\ requests[k].startIndex >= requests[j].index
        /\ requests[k].endIndex <= requests[j].index + StrLen(requests[j].text)

\* a heading style and a text style in one finished command list
C2_Witness ==
  /\ pc = "done"
  /\ \E k \in 1..Len(requests) : requests[k].type = "updateParagraphStyle"
  /\ \E k \in 1..Len(requests) :
        /\ requests[k].type = "updateTextStyle"
        /\ requests[k].startIndex > StartIndex

\* C3: applied in order to a document that is empty from the origin on,
\* every command is valid given the commands before it: an insert goes no
\* further than the end of the text inserted so far, and a style command
\* covers only text put in by the insertText it follows, with no other
\* insert in between.
C3_CommandsValidInOrder ==
  \A k \in 1..Len(requests) :
     LET end == StartIndex + Inserted(requests, k - 1) IN
     /\ IsInsert(requests[k]) =>
           requests[k].index >= StartIndex /\ requests[k].index <= end
     /\ IsStyle(requests[k]) =>
           \E j \in 1..(k - 1) :
              /\ requests[j].type = "insertText"
              /\ \A m \in (j + 1)..(k - 1) : ~IsInsert(requests[m])
              /\ requests[k].startIndex >= StartIndex + Inserted(requests, j - 1)
              /\ requests[k].endIndex <= StartIndex + Inserted(requests, j)
              /\ requests[k].endIndex <= end

\* a style command that belongs to a later insert than the first
C3_Witness ==
  /\ pc = "done"
  /\ \E k \in 1..Len(requests) :
        IsStyle(requests[k]) /\ InsertBefore(requests, k) > 1

\* the latest image call is over, with the given result
CallEnded == call.result \notin {"none", "pending"}

Failures == {"rejected", "fetch_error", "not_image", "too_large", "upload_error"}

\* the command the emitter appended for the latest image call, if any
CallCommand ==
  IF Len(requests) > call.nreq THEN <<requests[call.nreq + 1]>> ELSE <<>>

\* C4: when the externalization of an image fails for any reason, the
\* emitter appends one insertText of "[Image: " + url + "]\n" at the cursor
\* the call was made at.
C4_FailureYieldsPlaceholder ==
  call.result \in Failures =>
     CallCommand = <<InsertText(call.index, Placeholder(call.url))>>

Ranges(k) == requests[k].startIndex .. (requests[k].endIndex - 1)

\* C5 as stated: no two updateTextStyle commands cover a common index.
C5_NoTwoSpansOverlap ==
  \A j, k \in 1..Len(requests) :
     (j < k /\ requests[j].type = "updateTextStyle"
            /\ requests[k].type = "updateTextStyle")
        => Ranges(j) \cap Ranges(k) = {}

\* C5 amended: the bold spans of a line never overlap one another and the
\* italic spans never overlap one another; an italic match that intersects
\* a bold span is kept, so two updateTextStyle commands cover a common index
\* only when one is bold and the other italic.
C5_SameKindSpansDisjoint ==
  \A j, k \in 1..Len(requests) :
     (j < k /\ requests[j].type = "updateTextStyle"
            /\ requests[k].type = "updateTextStyle"
            /\ Ranges(j) \cap Ranges(k) # {})
        => requests[j].style = "bold" /\ requests[k].style = "italic"

\* one paragraph with two italic spans, and one with an italic span over a
\* bold one, are both converted
C5_Witness ==
  /\ pc = "done"
  /\ \/ \E j, k \in 1..Len(requests) :
          /\ j < k
          /\ requests[j].style = "italic" /\ requests[k].style = "italic"
          /\ InsertBefore(requests, j) = InsertBefore(requests, k)
     \/ \E j, k \in 1..Len(requests) :
          /\ requests[j].style = "bold" /\ requests[k].style = "italic"
          /\ Ranges(j) \cap Ranges(k) # {}

BlockedAddrs == {"loopback", "link_local", "private", "reserved"}

\* C6: no fetch connects to a loopback, link-local, private or reserved
\* address, whether the host is an IP literal or a name that resolves there.
C6_NoFetchFromInternalAddress ==
  \A f \in fetches : f.addr \notin BlockedAddrs

C8_DataUriPassedThrough ==
  CallEnded =>
     /\ (UrlParse(call.url).scheme \notin {"http", "https"}
           /\ ~StartsWithDataImage(call.url))
          => call.result = "rejected"
     /\ StartsWithDataImage(call.url) =>
          /\ CallCommand = <<InsertInlineImage(call.index, call.url)>>
          /\ \A f \in fetches : f.url # call.url

\* the hostname the validator looks at
HostnameOf(url) == UrlParse(url).hostname

OnDenylist(url) ==
  LET h == HostnameOf(url) IN
  \/ Contains(h, <<"metadata">>)
  \/ Contains(h, <<"metadata", ".", "google", ".", "internal">>)
  \/ Contains(h, <<"instance-data">>)
  \/ h = <<"localhost">>
  \/ h = <<"localhost", ".", "localdomain">>

\* C9: a URL whose lower-cased hostname contains a denylist entry, or is
\* localhost or localhost.localdomain, or whose parsing raises, is rejected:
\* the call never reaches the fetch.
C9_DenylistRejected ==
  (call.result # "none" /\ pc # "img_validate"
     /\ ~StartsWithDataImage(call.url)
     /\ (OnDenylist(call.url) \/ UrlParse(call.url).raises))
    => call.result = "rejected" /\ \A f \in fetches : f.url # call.url

\* a hostname that only contains a denylist entry was rejected
C9_Witness ==
  /\ pc = "done"
  /\ call.result = "rejected"
  /\ Contains(HostnameOf(call.url), <<"instance-data">>)
  /\ HostnameOf(call.url) # <<"instance-data">>

\* a response has arrived for the latest call
GotResponse == call.size # 0

BadResponse ==
  \/ call.header # <<>> /\ ~IsImageType(call.header)
  \/ call.size > MaxImageBytes

\* C10: a response that is not of an image type or is larger than 10 MiB
\* is a failure and nothing is uploaded; any other response is uploaded and,
\* when the upload succeeds, its URI is inserted at the index of the call.
C10_UploadOnlyImageWithinLimit ==
  /\ \A u \in uploads : IsImageType(u.content_type) /\ u.size <= MaxImageBytes
  /\ (GotResponse /\ BadResponse) =>
        /\ call.result \in {"not_image", "too_large"}
        /\ \A c \in {requests[k] : k \in 1..Len(requests)} :
              c.type = "insertInlineImage" => c.index # call.index
  /\ (GotResponse /\ ~BadResponse) =>
        \/ pc = "img_upload" /\ call.result = "pending"
        \/ call.result \in {"inserted", "upload_error"}
  /\ call.result = "inserted" =>
        /\ \E file_id \in FileIds :
              CallCommand = <<InsertInlineImage(call.index, DriveUri(file_id))>>
        /\ [content_type |-> ContentTypeOf(call.header), size |-> call.size] \in uploads

\* a body of exactly 10 MiB was uploaded and inserted
C10_Witness ==
  /\ call.result = "inserted"
  /\ call.size = MaxImageBytes
  /\ requests[Len(requests)].type = "insertInlineImage"

TitleLine == <<"T", "i", "t", "l", "e", "\n">>
HelloLine == <<"H", "e", "l", "l", "o", " ", "*", "*", "w", "o", "r", "l", "d", "*", "*", "\n">>

HasCommand(c) == \E k \in 1..Len(requests) : requests[k] = c

ScenarioADone == input.dialect = "md" /\ input.text = ScenarioA /\ pc = "done"

NewlineCount(t) == Cardinality({ i \in 1..Len(t) : t[i] = "\n" })

InsertTexts(reqs) == SelectSeq(reqs, LAMBDA c : c.type = "insertText")

\* the kind of block the insertText at position k was emitted for
BlockKindAt(reqs, k) ==
  IF k < Len(reqs) /\ reqs[k + 1].type = "updateParagraphStyle" THEN "heading"
  ELSE IF reqs[k].text = <<"\n">> THEN "blank"
  ELSE "paragraph"

RECURSIVE BlocksFrom(_, _)
BlocksFrom(reqs, k) ==
  IF k > Len(reqs) THEN <<>>
  ELSE IF reqs[k].type # "insertText" THEN BlocksFrom(reqs, k + 1)
  ELSE <<BlockKindAt(reqs, k)>> \o BlocksFrom(reqs, k + 1)

Blocks(reqs) == BlocksFrom(reqs, 1)

RECURSIVE ConcatTexts(_)
ConcatTexts(reqs) ==
  IF reqs = <<>> THEN <<>>
  ELSE (IF Head(reqs).type = "insertText" THEN Head(reqs).text ELSE <<>>)
         \o ConcatTexts(Tail(reqs))

RECURSIVE SourceText(_, _)
SourceText(lines, n) ==
  IF n = 0 THEN <<>>
  ELSE SourceText(lines, n - 1) \o BlockText(lines[n]) \o <<"\n">>

\* C13: in the line dialect the texts of the insertText commands,
\* concatenated in emission order, are the texts of the blocks in source
\* order, each followed by "\n": the heading remainder for a heading, the
\* full line for a paragraph, nothing for a blank.
C13_InsertedTextIsBlockText ==
  input.dialect = "md" => ConcatTexts(requests) = SourceText(Lines, lineno)

\* a finished conversion with a heading whose marks are gone, a blank of
\* spaces and a paragraph
C13_Witness ==
  /\ input.dialect = "md" /\ pc = "done"
  /\ \E k \in 1..Len(Lines) : LineKind(Lines[k]) = "heading"
  /\ \E k \in 1..Len(Lines) : LineKind(Lines[k]) = "blank"
  /\ \E k \in 1..Len(Lines) : LineKind(Lines[k]) = "paragraph"
  /\ ConcatTexts(requests) # input.text

\* a node with a p or heading ancestor
RECURSIVE InBlock(_, _)
InBlock(nodes, n) ==
  /\ n # 0 /\ nodes[n].parent # 0
  /\ \/ nodes[nodes[n].parent].kind \in {"h1", "h6", "p"}
     \/ InBlock(nodes, nodes[n].parent)

TextInserted(t) ==
  \E k \in 1..Len(requests) :
     requests[k].type = "insertText" /\ Contains(requests[k].text, t)

\* C14: no source text is dropped: at the end of a conversion every
\* non-blank line of the line dialect, and every non-whitespace string of
\* the HTML dialect that is outside every p and heading, is part of the
\* text of some insertText command.
C14_NoSourceTextDropped ==
  pc = "done" =>
     /\ input.dialect = "md" =>
           \A k \in 1..Len(Lines) :
              ~IsBlank(Lines[k]) => TextInserted(BlockText(Lines[k]))
     /\ input.dialect = "html" =>
           \A n \in 1..Len(input.nodes) :
              (/\ input.nodes[n].kind = "text"
               /\ ~IsBlank(input.nodes[n].text)
               /\ ~InBlock(input.nodes, n))
                 => TextInserted(input.nodes[n].text)

\* the header text as the specification describes it: the title value
\* first, then 'Titleized Key: value' for every other key in order
ClaimedHeaderText(metadata) ==
  LET others == OtherPairs(metadata) IN
  JoinLines((IF HasTitle(metadata) THEN <<ValueStr(TitleOf(metadata))>> ELSE <<>>)
              \o [k \in 1..Len(others) |->
                    KeyDisplay(others[k].key.chars) \o <<":", " ">> \o ValueStr(others[k].value)])

\* _create_first_page_header has been left, by return or by exception
HeaderStageOver ==
  input.metadata # <<>> /\ header_id # NoHeader /\ pc # "header_insert"

HeaderBatches == { k \in 1..Len(batches) : batches[k].segment # NoHeader }

\* C15: for every metadata mapping the header text is the title value (if
\* present) as the first line, then one line 'Titleized Key: value' per
\* other key in insertion order, lists joined by ", ", dates as
\* YYYY-MM-DD, the lines joined by "\n".
C15_HeaderTextFormat ==
  HeaderStageOver =>
     \E k \in HeaderBatches :
        batches[k].requests[1] = InsertText(0, ClaimedHeaderText(input.metadata))

ScenarioCText ==
  <<"R", "e", "p", "o", "r", "t", "\n", "T", "a", "g", "s", ":", " ", "a", ",", " ", "b">>

RECURSIVE BodyCursor(_, _)
BodyCursor(lines, n) ==
  IF n = 0 THEN StartIndex ELSE BodyCursor(lines, n - 1) + LineAdvance(lines[n])

RECURSIVE BodyRequests(_, _)
BodyRequests(lines, n) ==
  IF n = 0 THEN <<>>
  ELSE BodyRequests(lines, n - 1) \o LineRequests(BodyCursor(lines, n - 1), lines[n])

IsBodyBatch(b) == b.segment = NoHeader /\ b.requests[1].type # "createHeader"

BatchesInOrder ==
  \A k \in 1..Len(batches) :
     /\ batches[k].requests[1].type = "createHeader" =>
           k = 1 /\ batches[k] = Batch(NoHeader, <<CreateHeaderRequest>>)
     /\ batches[k].segment # NoHeader =>
           /\ k = 2 /\ batches[1].requests[1].type = "createHeader"
           /\ batches[k].segment = header_id
           /\ \A i \in 1..Len(batches[k].requests) : batches[k].requests[i].index = 0
     /\ IsBodyBatch(batches[k]) =>
           /\ k = Len(batches) /\ pc \in AfterParse \ {"done"}
           /\ k = IF input.metadata # <<>> THEN 3 ELSE 1

\* C17: with metadata the createHeader batch, then the batch that writes
\* the header into the segment of the reply, are submitted before the body
\* batch; without metadata no header is created or written; writing the
\* header leaves the body's cursor and commands alone, and the body batch
\* is the one the body text alone determines, starting at index 1.
C17_HeaderBeforeBody ==
  /\ []BatchesInOrder
  /\ [](input.metadata = <<>> =>
          header_id = NoHeader /\ \A k \in 1..Len(batches) : IsBodyBatch(batches[k]))
  /\ [][(pc \in {"create", "header_create", "header_insert"}) =>
          (requests' = requests /\ current_index' = current_index)]_vars
  /\ []((input.dialect = "md" /\ pc = "applied" /\ requests # <<>>) =>
          batches[Len(batches)] = Batch(NoHeader, BodyRequests(Lines, Len(Lines))))

\* the example body has gone out after the two header batches
C17_Witness ==
  /\ pc = "applied" /\ input.text = ScenarioA
  /\ Len(batches) = 3
  /\ batches[2].segment = header_id
  /\ batches[3].requests[1] = InsertText(StartIndex, TitleLine)

AllKeysStr == \A k \in 1..Len(input.metadata) : input.metadata[k].key.str

\* C18: metadata values of any type are coerced to their string
\* representation when the header text is built: whatever the types of the
\* values, the header formatter does not raise and the conversion is not
\* aborted in it.
C18_ValueTypesNeverAbort ==
  (AllKeysStr /\ header_id # NoHeader) => pc # "aborted"

\* the cursor and the inserts of one request agree, as when it runs alone
RunsAsAlone(r) ==
  /\ \A k \in 1..Len(r.requests) :
        IsInsert(r.requests[k]) =>
           r.requests[k].index = StartIndex + Inserted(r.requests, k - 1)
  /\ \/ r.current_index = StartIndex + Inserted(r.requests, Len(r.requests))
     \/ /\ r.pc \in AfterParse /\ r.input.dialect = "html"
        /\ r.current_index = StartIndex
        /\ r.requests = <<InsertText(1, GetText(r.input.nodes, r.dom, 0))>>
  /\ r.input.dialect = "md" =>
        /\ r.requests = BodyRequests(SplitLines(r.input.text), r.lineno)
        /\ r.current_index = BodyCursor(SplitLines(r.input.text), r.lineno)

\* what the Docs API, the network and Drive answered to a request
Answers(r) ==
  [header_id |-> r.header_id, result |-> r.call.result,
   header |-> r.call.header, size |-> r.call.size]

\* C19: two conversion requests interleaved at their waits for the network
\* each produce the commands and the cursor they produce alone: each one's
\* inserts and cursor follow from its own input, two requests with the same
\* input and the same answers end with the same commands, cursor and
\* batches, and a step of one request changes no local of the other.
C19_ConcurrentRunsIndependent ==
  /\ [](RunsAsAlone(Locals) /\ RunsAsAlone(other))
  /\ []((/\ input = other.input /\ Answers(Locals) = Answers(other)
         /\ Finished(pc) /\ Finished(other.pc))
          => /\ requests = other.requests
             /\ current_index = other.current_index
             /\ batches = other.batches)
  /\ [][running' = running => other' = other]_vars
  /\ [][running' # running => (other' = Locals /\ Locals' = other)]_vars

\* the first request waits for its image after it emitted a command, and
\* the second, started meanwhile, is about to upload its own image
C19_Witness ==
  /\ running = 2 /\ pc = "img_upload"
  /\ other.pc = "img_fetch"
  /\ Len(other.requests) = 1 /\ other.current_index = 2
  /\ input # other.input

\* the position in reqs of the k-th insertText
InsertPos(reqs, k) ==
  CHOOSE p \in 1..Len(reqs) :
     /\ reqs[p].type = "insertText"
     /\ Cardinality({ q \in 1..p : reqs[q].type = "insertText" }) = k

RECURSIVE StylesFrom(_, _)
StylesFrom(reqs, p) ==
  IF p > Len(reqs) \/ reqs[p].type # "updateTextStyle" THEN <<>>
  ELSE <<reqs[p]>> \o StylesFrom(reqs, p + 1)

\* the spans emitted for the insertText at position p, as offsets from the
\* index of the insert
EmittedSpans(reqs, p) ==
  LET st == StylesFrom(reqs, p + 1) IN
  [i \in 1..Len(st) |->
     [kind |-> st[i].style,
      start |-> st[i].startIndex - reqs[p].index,
      end |-> st[i].endIndex - reqs[p].index]]

Kinded(spans, kind) ==
  [i \in 1..Len(spans) |-> [kind |-> kind, start |-> spans[i].start, end |-> spans[i].end]]

\* the spans of a line scanned on its own
ScannedAlone(line) ==
  Kinded(BoldSpans(line), "bold") \o Kinded(ItalicSpans(line), "italic")

BoldDelims(s) == {s.start, s.start + 1, s.end - 2, s.end - 1}

\* C21: "**a** **b**" gets the two bold spans [0,5) and [6,11) and no italic
\* span; for every paragraph line a bold span ends at the first closing pair
\* after its opening pair, two bold spans are disjoint, and no italic span
\* starts or ends on a delimiter character of a bold span.
C21_BoldPairsNearestCloser ==
  input.dialect = "md" =>
     /\ (pc = "done" /\ input.text = ScenarioD) =>
           EmittedSpans(requests, 1) =
              <<[kind |-> "bold", start |-> 0, end |-> 5],
                [kind |-> "bold", start |-> 6, end |-> 11]>>
     /\ \A k \in 1..lineno :
           LineKind(Lines[k]) = "paragraph" =>
              LET line == Lines[k]
                  sp == EmittedSpans(requests, InsertPos(requests, k))
              IN \A a \in 1..Len(sp) :
                    sp[a].kind = "bold" =>
                       /\ \A j \in (sp[a].start + 3)..(sp[a].end - 3) :
                             ~(/\ line[j + 1] = line[sp[a].start + 1]
                               /\ line[j + 2] = line[sp[a].start + 1])
                       /\ \A b \in 1..Len(sp) :
                             /\ (sp[b].kind = "bold" /\ b # a) =>
                                   (sp[a].end <= sp[b].start \/ sp[b].end <= sp[a].start)
                             /\ sp[b].kind = "italic" =>
                                   {sp[b].start, sp[b].end - 1} \cap BoldDelims(sp[a]) = {}

\* the line with two adjacent bold markers was scanned
C21_Witness ==
  /\ pc = "done" /\ input.text = ScenarioD
  /\ Len(EmittedSpans(requests, 1)) = 2
  /\ requests[2].style = "bold" /\ requests[3].style = "bold"

\* the number of '#' characters a line starts with
LeadingMarks(line) ==
  Cardinality({ n \in 1..Len(line) : \A i \in 1..n : line[i] = "#" })

\* the number of whitespace characters that follow the first n characters
SpaceRun(line, n) ==
  Cardinality({ m \in 1..(Len(line) - n) : \A i \in (n + 1)..(n + m) : IsSpace(line[i]) })

\* the commands of the block at insert p are those of a blank line
EmittedBlank(reqs, p) ==
  /\ reqs[p].text = <<"\n">>
  /\ p < Len(reqs) => reqs[p + 1].type = "insertText"

\* ... those of a heading of the given level and text
EmittedHeading(reqs, p, level, text) ==
  /\ reqs[p].text = text \o <<"\n">>
  /\ p < Len(reqs)
  /\ reqs[p + 1].type = "updateParagraphStyle"
  /\ level \in 1..MaxHeadingLevel
  /\ reqs[p + 1].style = HeadingNames[level]

\* ... those of a paragraph with the given text
EmittedParagraph(reqs, p, text) ==
  /\ reqs[p].text = text \o <<"\n">>
  /\ p < Len(reqs) => reqs[p + 1].type # "updateParagraphStyle"

StylesAreHeadings(reqs) ==
  \A q \in 1..Len(reqs) :
     reqs[q].type = "updateParagraphStyle" =>
        \E l \in 1..MaxHeadingLevel : reqs[q].style = HeadingNames[l]

\* C22 as stated: a whitespace-only line is a blank, a line of 1 to 6 leading
\* '#' followed by whitespace is a heading whose level is the number of marks
\* and whose text is the remainder, every other line is a paragraph with the
\* full line text, and every heading style is one of HEADING_1..HEADING_6.
C22_MarksThenSpaceIsHeading ==
  input.dialect = "md" =>
     /\ StylesAreHeadings(requests)
     /\ \A k \in 1..lineno :
           LET line == Lines[k]
               p == InsertPos(requests, k)
               n == LeadingMarks(line)
               m == SpaceRun(line, n)
           IN IF IsBlank(line) THEN EmittedBlank(requests, p)
              ELSE IF n \in 1..MaxHeadingLevel /\ m >= 1
                   THEN EmittedHeading(requests, p, n, SubSeq(line, n + m + 1, Len(line)))
                   ELSE EmittedParagraph(requests, p, line)

\* C22 amended: the heading needs at least one character after the
\* whitespace that follows the marks; when the whitespace runs to the end of
\* the line its last character is that text, and marks followed by a single
\* whitespace character and nothing else are a paragraph.
C22_LineClassifier ==
  input.dialect = "md" =>
     /\ StylesAreHeadings(requests)
     /\ \A k \in 1..lineno :
           LET line == Lines[k]
               p == InsertPos(requests, k)
               n == LeadingMarks(line)
               m == SpaceRun(line, n)
           IN IF IsBlank(line) THEN EmittedBlank(requests, p)
              ELSE IF n \in 1..MaxHeadingLevel /\ m >= 1 /\ n + m < Len(line)
                   THEN EmittedHeading(requests, p, n, SubSeq(line, n + m + 1, Len(line)))
              ELSE IF n \in 1..MaxHeadingLevel /\ m >= 2
                   THEN EmittedHeading(requests, p, n, SubSeq(line, Len(line), Len(line)))
                   ELSE EmittedParagraph(requests, p, line)

\* a line of seven marks was classified, and became a paragraph
C22_Witness ==
  /\ pc = "done" /\ input.text = SevenMarks
  /\ EmittedParagraph(requests, 1, SevenMarks)

\* the next block to emit is a heading, in either dialect
AtHeading ==
  \/ pc = "md" /\ lineno < Len(Lines) /\ LineKind(Lines[lineno + 1]) = "heading"
  \/ AtElement /\ Kind \in {"h1", "h6"}

\* the text of that heading, without a newline
HeadingText ==
  IF input.dialect = "md" THEN BlockText(Lines[lineno + 1])
  ELSE GetText(input.nodes, dom, cur)

\* C23: the step that emits a heading appends exactly two commands, the
\* insertText of text + "\n" at the cursor and one updateParagraphStyle over
\* [cursor, cursor + len(text)), so no updateTextStyle, and advances the
\* cursor by len(text) + 1.
C23_HeadingCommands ==
  [][AtHeading =>
       LET n == Len(requests) IN
       /\ Len(requests') = n + 2
       /\ SubSeq(requests', 1, n) = requests
       /\ requests'[n + 1] = InsertText(current_index, HeadingText \o <<"\n">>)
       /\ requests'[n + 2].type = "updateParagraphStyle"
       /\ requests'[n + 2].startIndex = current_index
       /\ requests'[n + 2].endIndex = current_index + StrLen(HeadingText)
       /\ current_index' = current_index + StrLen(HeadingText) + 1]_vars

\* an h6 element with the text "a" was emitted after another command
C23_Witness ==
  /\ input.dialect = "html" /\ Len(requests) = 3
  /\ requests[2] = InsertText(2, <<"a", "\n">>)
  /\ requests[3] = UpdateParagraphStyle(2, 3, "HEADING_6")
  /\ current_index = 4

\* C24: in the HTML walk no node below a heading or p element is visited by
\* the loop, the element having been emitted with its flattened text before,
\* and the walk does not end in an exception.
C24_BlockChildrenNotVisited ==
  input.dialect = "html" =>
     /\ AtElement => ~InBlock(input.nodes, cur)
     /\ pc # "raised"

\* the document has no heading, p, br or img with a src anywhere
NoRecognizedBlock(nodes) ==
  \A n \in 1..Len(nodes) :
     /\ nodes[n].kind \notin {"h1", "h6", "p", "br"}
     /\ nodes[n].kind = "img" => nodes[n].src = NoSrc

\* the strings of the document in source order, joined
RECURSIVE FlattenedText(_, _)
FlattenedText(nodes, n) ==
  IF n = 0 THEN <<>>
  ELSE FlattenedText(nodes, n - 1)
         \o (IF nodes[n].kind = "text" THEN nodes[n].text ELSE <<>>)

\* C25 as stated: for an HTML document with no recognized block the only
\* command is one insertText at index 1 carrying the flattened text of the
\* root.
C25_FallbackAlwaysInserts ==
  (input.dialect = "html" /\ pc = "done" /\ NoRecognizedBlock(input.nodes)) =>
     requests = <<InsertText(1, FlattenedText(input.nodes, Len(input.nodes)))>>

\* C25 amended: that insertText is the only command when the flattened text
\* has a character that is not whitespace; when it has none, no command is
\* emitted at all.
C25_FallbackInsertsNonBlankText ==
  (input.dialect = "html" /\ pc = "done" /\ NoRecognizedBlock(input.nodes)) =>
     LET text == FlattenedText(input.nodes, Len(input.nodes)) IN
     /\ ~IsBlank(text) => requests = <<InsertText(1, text)>>
     /\ IsBlank(text) => requests = <<>>

\* a document of two strings in a div went through the fallback
C25_Witness ==
  /\ input.dialect = "html" /\ pc = "done" /\ NoRecognizedBlock(input.nodes)
  /\ Len(input.nodes) = 3 /\ input.nodes[1].kind = "div"
  /\ requests = <<InsertText(1, <<"a", "a">>)>>

\* the next block to emit is a paragraph of the line dialect
AtParagraph ==
  pc = "md" /\ lineno < Len(Lines) /\ LineKind(Lines[lineno + 1]) = "paragraph"

LeftToRight(spans) ==
  \A k \in 1..(Len(spans) - 1) : spans[k].end <= spans[k + 1].start

\* C26: the step that emits a paragraph appends the insertText of the full
\* line + "\n" at the cursor, then one updateTextStyle per bold span, left to
\* right, then one per italic span, left to right, each over
\* [cursor + start, cursor + end) with the cursor as it was before the step,
\* and advances the cursor by len(line) + 1.
C26_ParagraphCommands ==
  [][AtParagraph =>
       LET line == Lines[lineno + 1]
           n == Len(requests)
           b == BoldSpans(line)
           i == ItalicSpans(line)
       IN /\ Len(requests') = n + 1 + Len(b) + Len(i)
          /\ SubSeq(requests', 1, n) = requests
          /\ requests'[n + 1] = InsertText(current_index, line \o <<"\n">>)
          /\ LeftToRight(b) /\ LeftToRight(i)
          /\ \A k \in 1..Len(b) :
                requests'[n + 1 + k] =
                   UpdateTextStyle(current_index + b[k].start, current_index + b[k].end, "bold")
          /\ \A k \in 1..Len(i) :
                requests'[n + 1 + Len(b) + k] =
                   UpdateTextStyle(current_index + i[k].start, current_index + i[k].end, "italic")
          /\ current_index' = current_index + StrLen(line) + 1]_vars

\* a paragraph with a bold and an italic span was emitted
C26_Witness ==
  /\ pc = "done" /\ input.text = NestedItalic
  /\ Len(requests) = 3
  /\ requests[1].text = NestedItalic \o <<"\n">>
  /\ requests[2].style = "bold" /\ requests[3].style = "italic"

\* the conversion ended with an exception
EndedInError == pc \in {"failed", "aborted", "raised"}

\* the messages of a GoogleDocsConversionError of convert and convert_html
RateLimitMessage == "Rate limit exceeded. Please try again in a minute."
PermissionMessage == "Permission denied. Please re-authenticate."
FailedMessages == {"Failed to convert to Google Docs: ", "Failed to convert HTML to Google Docs: "}
UnexpectedMessages ==
  {"Unexpected error during conversion: ", "Unexpected error during HTML conversion: "}

\* C27: a conversion that ends with an exception ends with a
\* GoogleDocsConversionError and returns no result: 'Rate limit exceeded'
\* for a service error of status 429, 'Permission denied' for 403, 'Failed
\* to convert ... <status>' for any other status, and 'Unexpected error' for
\* an exception that is not a service error; a conversion that has not
\* failed carries no error.
C27_FailuresReported ==
  /\ EndedInError <=> outcome.error # NoError
  /\ EndedInError => outcome.result = NoTitle
  /\ pc = "failed" =>
        LET st == input.fault.status IN
        /\ st = 429 => outcome.error = [message |-> RateLimitMessage, status |-> 0]
        /\ st = 403 => outcome.error = [message |-> PermissionMessage, status |-> 0]
        /\ st \notin {429, 403, NotHttp} =>
              outcome.error.message \in FailedMessages /\ outcome.error.status = st
        /\ st = NotHttp =>
              outcome.error.message \in UnexpectedMessages /\ outcome.error.status = 0
  /\ pc = "raised" => outcome.error.message \in UnexpectedMessages
  /\ (pc = "aborted" /\ header_id # NoHeader) => outcome.error.message \in UnexpectedMessages
  /\ (pc = "aborted" /\ header_id = NoHeader) =>
        \/ outcome.error.message \in FailedMessages /\ outcome.error.status = 400
        \/ outcome.error.message \in UnexpectedMessages /\ outcome.error.status = 0

\* the body batch of an HTML conversion was refused with status 429
C27_Witness ==
  /\ pc = "failed" /\ input.dialect = "html"
  /\ input.fault = [at |-> "body", status |-> 429]
  /\ outcome.error.message = RateLimitMessage
  /\ requests # <<>>

\* the document has been created
Created == outcome.title # NoTitle

\* C28: the document is created with, and the result carries, the title of
\* the front matter when it has one and the title argument otherwise; when
\* the front matter could not be parsed the metadata is empty, the whole
\* content is converted as the body, no header is created or written, and
\* the title is the title argument.
C28_TitleAndParseFailure ==
  /\ Created =>
        outcome.title = IF HasTitle(input.metadata) THEN TitleOf(input.metadata) ELSE TitleArg
  /\ pc = "returned" => (Created /\ outcome.result = outcome.title)
  /\ input.unparsable =>
        /\ input.metadata = <<>>
        /\ input.text = input.content
        /\ header_id = NoHeader
        /\ \A k \in 1..Len(batches) : IsBodyBatch(batches[k])
        /\ Created => outcome.title = TitleArg
        /\ pc \in {"done", "applied", "returned"} =>
              ConcatTexts(requests) = input.content \o <<"\n">>

\* a text whose front matter did not parse was converted under the title
\* argument, the front matter lines being part of the body
C28_Witness ==
  /\ pc = "returned" /\ input.unparsable
  /\ outcome.result = TitleArg
  /\ Len(batches) = 1
  /\ batches[1].requests[1] = InsertText(1, <<"-", "-", "-", "\n">>)

\* _parse_markdown_to_requests has run to its end
MdParsed == input.dialect = "md" /\ lineno = Len(Lines) /\ pc # "md"

BodyApplied ==
  IF requests = <<>> THEN input.dialect = "html" /\ pc \in AfterParse \ {"done"}
  ELSE batches # <<>> /\ batches[Len(batches)] = Batch(NoHeader, requests)

HeaderApplied ==
  input.metadata # <<>> =>
     (Len(batches) >= 2 /\ batches[2].segment = header_id /\ header_id # NoHeader)

\* C30: the steps run in the order create, header batches (with metadata),
\* body batch, make public (when requested), share link: a batch is
\* submitted only for a created document, the body batch only after the
\* header batches, the document is public only if that was requested and
\* the body batch was applied, a result is returned only after all of these,
\* a conversion whose header batch failed has submitted no body batch, and
\* after a failure no further step is taken.
C30_StepsInOrder ==
  /\ [](batches # <<>> => Created)
  /\ [](\A k \in 1..Len(batches) : IsBodyBatch(batches[k]) => HeaderApplied)
  /\ [](outcome.public => (input.make_public /\ Created /\ HeaderApplied /\ BodyApplied))
  /\ [](pc = "returned" =>
          /\ Created /\ HeaderApplied /\ BodyApplied
          /\ outcome.public = input.make_public
          /\ outcome.result # NoTitle)
  /\ [](outcome.result # NoTitle => pc = "returned")
  /\ []((EndedInError /\ input.fault.at \in {"create", "header_create", "header_insert"}) =>
          \A k \in 1..Len(batches) : ~IsBodyBatch(batches[k]))
  /\ []((pc = "failed" /\ input.fault.at = "body") => ~outcome.public)
  /\ [][~EndedInError]_vars

\* the body batch of a text with front matter was refused: the document,
\* which was to be made public, is not public and nothing was returned
C30_Witness ==
  /\ pc = "failed" /\ input.fault.at = "body" /\ input.make_public
  /\ Len(batches) = 2 /\ batches[2].segment = header_id
  /\ ~outcome.public /\ outcome.result = NoTitle

====
